---------------------------- MODULE Spec2Model ----------------------------
(***************************************************************************)
(* A model of sortnetopt: the output-set value algebra (output_set.rs),    *)
(* the matching constraint propagator (matching.rs) and the subsume index  *)
(* (subsume_index.rs).                                                      *)
(*                                                                         *)
(* Conventions.  Channels are numbered from 0 as in the source, so a CVec  *)
(* of length w is a function with domain 0..w-1.  A Vec is a sequence      *)
(* (1-based), a position p of the source being position p+1 here.  A u16   *)
(* value is a natural number below 2^16; a u16 used as a set of channels   *)
(* (the rows of a Matching) is the set of the positions of its one bits.   *)
(***************************************************************************)
EXTENDS Integers, Sequences, FiniteSets, TLC

(***************************************************************************)
(* Bounds of the model.                                                    *)
(***************************************************************************)
MaxChannels == 3

\* Comparators applied to all_values(w) to make the pairs put into a tree.
MaxDepth == 3

\* Pairs in the vector given to Node::new.
MaxItems == 3

\* Queries made on one tree.
MaxQueries == 1

\* Threads of the pool that drives the parallel iterators.
MaxThreads == 2

\* Widths for which test::build_index is run, from 3 on.
MaxBuildIndexChannels == 5

\* Pairs inserted into a SubsumeIndex.
MaxBatch == 4

\* Inputs of incremental_minimal_elements, pairs the generator makes of one
\* input, and pairs it makes of all the inputs together.
MaxInputs == 2
MaxGenerated == 2
MaxPairs == 3

\* The first chunk_size of incremental_minimal_elements (1024 in the source).
ChunkSize == 1

(***************************************************************************)
(* equal_keys: how this build's sort_unstable_by_key leaves items with     *)
(* equal keys, "kept" in their order or "reversed" (the library does not   *)
(* specify the order; the model has these two).                            *)
(***************************************************************************)
VARIABLE equal_keys

(***************************************************************************)
(* u16 arithmetic.                                                         *)
(***************************************************************************)
NotZero == 65535

Bit(value, channel) == (value \div (2 ^ channel)) % 2

Min2(x, y) == IF x <= y THEN x ELSE y

Max2(x, y) == IF x >= y THEN x ELSE y

Step(cond) == IF cond THEN 1 ELSE 0

RECURSIVE count_ones(_)
count_ones(value) ==
    IF value = 0 THEN 0 ELSE (value % 2) + count_ones(value \div 2)

Channels(w) == 0 .. (w - 1)

\* f itself, held as a table of its values instead of the rule that
\* computes them (an aid to the evaluation: the values are computed once).
Eager(f) == f @@ <<>>

\* The permutations of the channels, as CVec<usize>.
Perms(w) ==
    {perm \in [Channels(w) -> Channels(w)] :
        \A i, j \in Channels(w) : perm[i] = perm[j] => i = j}

IdPerm(w) == Eager([i \in Channels(w) |-> i])

(***************************************************************************)
(* slice::sort_unstable on totally ordered keys: the ascending arrangement *)
(* of the same elements, duplicates kept (equal keys are                   *)
(* indistinguishable, so the arrangement is unique).                       *)
(***************************************************************************)
RECURSIVE sort_unstable(_)
sort_unstable(seq) ==
    IF Len(seq) <= 1 THEN seq
    ELSE LET pivot == seq[1]
             rest == Tail(seq)
         IN sort_unstable(SelectSeq(rest, LAMBDA x : x < pivot))
              \o <<pivot>>
              \o sort_unstable(SelectSeq(rest, LAMBDA x : ~(x < pivot)))

\* The derived order of a tuple (u16, usize): lexicographic.
LessPair(x, y) == x[1] < y[1] \/ (x[1] = y[1] /\ x[2] < y[2])

RECURSIVE sort_unstable_pairs(_)
sort_unstable_pairs(seq) ==
    IF Len(seq) <= 1 THEN seq
    ELSE LET pivot == seq[1]
             rest == Tail(seq)
         IN sort_unstable_pairs(SelectSeq(rest, LAMBDA x : LessPair(x, pivot)))
              \o <<pivot>>
              \o sort_unstable_pairs(SelectSeq(rest, LAMBDA x : ~LessPair(x, pivot)))

(***************************************************************************)
(* OutputSet                                                               *)
(***************************************************************************)
all_values(channels) ==
    [channels |-> channels, values |-> [k \in 1 .. (2 ^ channels) |-> k - 1]]

\* merge_body with a merge that does not skip duplicates: a value present in
\* both sequences advances the swap sequence only.
merge_body_keeps_duplicates(swap, keep, st) ==
    LET swap_value == swap[st.swap_pos]
        keep_value == keep[st.keep_pos]
        value == Min2(swap_value, keep_value)
    IN IF value = NotZero THEN st
       ELSE [swap_pos |-> st.swap_pos + Step(swap_value = value),
             keep_pos |-> st.keep_pos + Step(keep_value = value /\ swap_value # value),
             values |-> Append(st.values, value)]

\* The body of the merge loop of apply_comparator; st holds the loop's
\* variables.  Once the loop has left (both sequences at their sentinel) the
\* body changes nothing.
merge_body(swap, keep, st) ==
    LET swap_value == swap[st.swap_pos]
        keep_value == keep[st.keep_pos]
        value == Min2(swap_value, keep_value)
    IN IF value = NotZero THEN st
       ELSE [swap_pos |-> st.swap_pos + Step(swap_value = value),
             keep_pos |-> st.keep_pos + Step(keep_value = value),
             values |-> Append(st.values, value)]

\* The loop: at most n passes through the body (every pass that does not
\* leave the loop advances a position, so Len(swap) + Len(keep) passes reach
\* the sentinels).  The passes are split in halves to keep the evaluation
\* shallow; they run in the order of the source.
RECURSIVE merge_loop(_, _, _, _)
merge_loop(swap, keep, st, n) ==
    IF n = 0 \/ st.swap_pos > Len(swap) THEN st
    ELSE IF n = 1 THEN merge_body(swap, keep, st)
    ELSE merge_loop(swap, keep, merge_loop(swap, keep, st, n \div 2), n - (n \div 2))

apply_comparator(self, a, b) ==
    LET mask_a == 2 ^ a
        mask_b == 2 ^ b
        IsSwap(value) == Bit(value, b) = 1 /\ Bit(value, a) = 0
        swapped == SelectSeq(self.values, IsSwap)
        swap == [k \in 1 .. Len(swapped) |-> swapped[k] - mask_b + mask_a]
        keep == SelectSeq(self.values, LAMBDA value : ~IsSwap(value))
    IN [channels |-> self.channels,
        values |-> merge_loop(Append(swap, NotZero), Append(keep, NotZero),
                              [swap_pos |-> 1, keep_pos |-> 1, values |-> <<>>],
                              Len(self.values)).values]

\* is_sorted testing value & (value - 1) instead of value & (value + 1).
is_sorted_power_of_two(self) ==
    \A k \in 1 .. Len(self.values) :
        LET value == self.values[k]
        IN value = 0 \/ \A c \in 0 .. 15 : Bit(value, c) = 1 => Bit(value - 1, c) = 0

is_sorted(self) ==
    \A k \in 1 .. Len(self.values) :
        LET value == self.values[k]
        IN \A c \in 0 .. 15 : Bit(value, c) = 1 => Bit(value + 1, c) = 0

channel_weights(self) ==
    Eager([channel \in Channels(self.channels) |->
        Cardinality({k \in 1 .. Len(self.values) : Bit(self.values[k], channel) = 1})])

\* The inner loop of permute_channels: perm_masks is perm reversed, so the
\* bits are shifted in from perm[w-1] down to perm[0].
RECURSIVE rebit(_, _, _, _)
rebit(value, perm, k, value_out) ==
    IF k < 0 THEN value_out
    ELSE rebit(value, perm, k - 1, (value_out * 2) + Bit(value, perm[k]))

\* permute_channels without the final sort.
permute_channels_unsorted(self, perm) ==
    [channels |-> self.channels,
     values |-> [k \in 1 .. Len(self.values) |->
                    rebit(self.values[k], perm, self.channels - 1, 0)]]

permute_channels(self, perm) ==
    [channels |-> self.channels,
     values |-> sort_unstable(
         [k \in 1 .. Len(self.values) |->
             rebit(self.values[k], perm, self.channels - 1, 0)])]

\* order_channels_by_weight sorting by w instead of !w (ascending weight).
order_channels_by_weight_ascending(self) ==
    LET w == self.channels
        cw == channel_weights(self)
        weights == sort_unstable_pairs([k \in 1 .. w |-> <<cw[k - 1], k - 1>>])
        perm == Eager([i \in Channels(w) |-> weights[i + 1][2]])
    IN [perm |-> perm, set |-> permute_channels(self, perm)]

\* order_channels_by_weight returns the permutation and changes the set.
order_channels_by_weight(self) ==
    LET w == self.channels
        cw == channel_weights(self)
        weights == sort_unstable_pairs(
                       [k \in 1 .. w |-> <<NotZero - cw[k - 1], k - 1>>])
        perm == Eager([i \in Channels(w) |-> weights[i + 1][2]])
    IN [perm |-> perm, set |-> permute_channels(self, perm)]

\* The body and the loop of the three-way merge of swap_channels.
merge_body_3(swap_a, swap_b, keep, st) ==
    LET swap_a_value == swap_a[st.swap_a_pos]
        swap_b_value == swap_b[st.swap_b_pos]
        keep_value == keep[st.keep_pos]
        value == Min2(Min2(swap_a_value, swap_b_value), keep_value)
    IN IF value = NotZero THEN st
       ELSE [swap_a_pos |-> st.swap_a_pos + Step(swap_a_value = value),
             swap_b_pos |-> st.swap_b_pos + Step(swap_b_value = value),
             keep_pos |-> st.keep_pos + Step(keep_value = value),
             values |-> Append(st.values, value)]

RECURSIVE merge_loop_3(_, _, _, _, _)
merge_loop_3(swap_a, swap_b, keep, st, n) ==
    IF n = 0 \/ st.keep_pos > Len(keep) THEN st
    ELSE IF n = 1 THEN merge_body_3(swap_a, swap_b, keep, st)
    ELSE merge_loop_3(swap_a, swap_b, keep,
                      merge_loop_3(swap_a, swap_b, keep, st, n \div 2),
                      n - (n \div 2))

swap_channels(self, a, b) ==
    IF a = b THEN self
    ELSE LET mask_a == 2 ^ a
             mask_b == 2 ^ b
             IsA(value) == Bit(value, a) = 1 /\ Bit(value, b) = 0
             IsB(value) == Bit(value, b) = 1 /\ Bit(value, a) = 0
             from_a == SelectSeq(self.values, IsA)
             from_b == SelectSeq(self.values, IsB)
             swap_a == [k \in 1 .. Len(from_a) |-> from_a[k] - mask_a + mask_b]
             swap_b == [k \in 1 .. Len(from_b) |-> from_b[k] - mask_b + mask_a]
             keep == SelectSeq(self.values, LAMBDA value : ~IsA(value) /\ ~IsB(value))
         IN [channels |-> self.channels,
             values |-> merge_loop_3(Append(swap_a, NotZero), Append(swap_b, NotZero),
                                     Append(keep, NotZero),
                                     [swap_a_pos |-> 1, swap_b_pos |-> 1,
                                      keep_pos |-> 1, values |-> <<>>],
                                     Len(self.values)).values]

\* The walk of subsumes: other_pos and slack are the loop's variables, k the
\* position in self.values of the value being looked for.
RECURSIVE subsumes_walk(_, _, _, _, _)
subsumes_walk(self_values, other_values, k, other_pos, slack) ==
    IF k > Len(self_values) THEN TRUE
    ELSE IF other_pos > Len(other_values) THEN FALSE
    ELSE LET value == self_values[k]
             other_value == other_values[other_pos]
         IN IF other_value = value
                THEN subsumes_walk(self_values, other_values, k + 1, other_pos + 1, slack)
            ELSE IF other_value > value THEN FALSE
            ELSE IF slack = 0 THEN FALSE
            ELSE subsumes_walk(self_values, other_values, k, other_pos + 1, slack - 1)

subsumes(self, other) ==
    IF Len(other.values) < Len(self.values) THEN FALSE
    ELSE subsumes_walk(self.values, other.values, 1, 1,
                       Len(other.values) - Len(self.values))


(***************************************************************************)
(* Abstraction: values is a function on 0 .. 2*w*w - 1.                    *)
(***************************************************************************)
\* abstraction counting only the channels on which a value is 1.
abstraction_ones_only(self) ==
    LET w == self.channels
        Slot(value, channel) ==
            (2 * ((w * channel) + (count_ones(value) - 1))) + 1
    IN [channels |-> w,
        values |-> Eager([slot \in 0 .. ((w * w * 2) - 1) |->
            Cardinality({vc \in (1 .. Len(self.values)) \X Channels(w) :
                            /\ Bit(self.values[vc[1]], vc[2]) = 1
                            /\ Slot(self.values[vc[1]], vc[2]) = slot})])]

abstraction(self) ==
    LET w == self.channels
        \* the slot incremented for a value and a channel
        Slot(value, channel) ==
            LET channel_value == Bit(value, channel)
                channel_pop_count == count_ones(value) - channel_value
            IN (2 * ((w * channel) + channel_pop_count)) + channel_value
    IN [channels |-> w,
        values |-> Eager([slot \in 0 .. ((w * w * 2) - 1) |->
            Cardinality({vc \in (1 .. Len(self.values)) \X Channels(w) :
                            Slot(self.values[vc[1]], vc[2]) = slot})])]

\* update_min taking the larger of the two entries.
update_min_takes_max(self, other) ==
    [self EXCEPT !.values = Eager([i \in DOMAIN self.values |->
                                Max2(self.values[i], other.values[i])])]

update_min(self, other) ==
    [self EXCEPT !.values = Eager([i \in DOMAIN self.values |->
                                Min2(self.values[i], other.values[i])])]

update_max(self, other) ==
    [self EXCEPT !.values = Eager([i \in DOMAIN self.values |->
                                Max2(self.values[i], other.values[i])])]

\* Option<usize>: max_by_key returns the last of the maximal elements.
largest_range(self, other) ==
    LET range == Eager([i \in DOMAIN self.values |->
                    Max2(self.values[i], other.values[i])
                      - Min2(self.values[i], other.values[i])])
        IsMax(i) == \A j \in DOMAIN range : range[j] <= range[i]
        index == CHOOSE i \in DOMAIN range :
                    IsMax(i) /\ \A j \in DOMAIN range : IsMax(j) => j <= i
    IN IF DOMAIN range = {} \/ range[index] = 0
           THEN [is_some |-> FALSE, value |-> 0]
           ELSE [is_some |-> TRUE, value |-> index]

\* channel_le with < in place of <=.
channel_le_strict(self, my_channel, other, other_channel) ==
    LET channel_values_len == self.channels * 2
        my_offset == channel_values_len * my_channel
        other_offset == channel_values_len * other_channel
    IN \A i \in 0 .. (channel_values_len - 1) :
          self.values[my_offset + i] < other.values[other_offset + i]

channel_le(self, my_channel, other, other_channel) ==
    LET channel_values_len == self.channels * 2
        my_offset == channel_values_len * my_channel
        other_offset == channel_values_len * other_channel
    IN \A i \in 0 .. (channel_values_len - 1) :
          self.values[my_offset + i] <= other.values[other_offset + i]

abstraction_swap_channels(self, a, b) ==
    IF a = b THEN self
    ELSE LET channel_values_len == self.channels * 2
             a_offset == channel_values_len * a
             b_offset == channel_values_len * b
             Source(slot) ==
                 IF slot >= a_offset /\ slot < a_offset + channel_values_len
                     THEN (slot - a_offset) + b_offset
                 ELSE IF slot >= b_offset /\ slot < b_offset + channel_values_len
                     THEN (slot - b_offset) + a_offset
                 ELSE slot
         IN [self EXCEPT !.values = Eager([slot \in DOMAIN self.values |->
                                        self.values[Source(slot)]])]

(***************************************************************************)
(* Matching.  A row is the set of the channels whose bit is set.  The      *)
(* mutators return the changed matching (self) and their bool (ret).       *)
(***************************************************************************)
Matching_new(channels) ==
    [matches_a |-> Eager([a \in Channels(channels) |-> Channels(channels)]),
     matches_b |-> Eager([b \in Channels(channels) |-> Channels(channels)]),
     incomplete |-> FALSE]

contains(self, channel_a, channel_b) == channel_b \in self.matches_a[channel_a]

\* is_power_of_two taking a row of two bits for a row of one.
is_power_of_two_or_two_bits(row) == Cardinality(row) \in {1, 2}

is_power_of_two(row) == Cardinality(row) = 1

trailing_zeros(row) == CHOOSE t \in row : \A u \in row : t <= u

RECURSIVE remove(_, _, _)
RECURSIVE remove_others_a(_, _, _, _)
RECURSIVE remove_others_b(_, _, _, _)

\* for other_channel_a in from..len: if other_channel_a != channel_a
\*     && self.remove(other_channel_a, target) { return true }
remove_others_a(self, channel_a, target, from) ==
    IF from >= Cardinality(DOMAIN self.matches_a) THEN [self |-> self, ret |-> FALSE]
    ELSE IF from = channel_a THEN remove_others_a(self, channel_a, target, from + 1)
    ELSE LET Removed(r) ==
                 IF r.ret THEN r
                 ELSE remove_others_a(r.self, channel_a, target, from + 1)
         IN Removed(remove(self, from, target))

\* for other_channel_b in from..len: if other_channel_b != channel_b
\*     && self.remove(target, other_channel_b) { return true }
remove_others_b(self, channel_b, target, from) ==
    IF from >= Cardinality(DOMAIN self.matches_b) THEN [self |-> self, ret |-> FALSE]
    ELSE IF from = channel_b THEN remove_others_b(self, channel_b, target, from + 1)
    ELSE LET Removed(r) ==
                 IF r.ret THEN r
                 ELSE remove_others_b(r.self, channel_b, target, from + 1)
         IN Removed(remove(self, target, from))

remove(self, channel_a, channel_b) ==
    IF self.incomplete THEN [self |-> self, ret |-> TRUE]
    ELSE IF channel_b \notin self.matches_a[channel_a] THEN [self |-> self, ret |-> FALSE]
    ELSE LET \* after the loop over other_channel_a
             AfterA(after_a, row_b) ==
                 IF after_a.ret THEN after_a
                 ELSE IF is_power_of_two(row_b)
                     THEN remove_others_b(after_a.self, channel_b,
                                          trailing_zeros(row_b), 0)
                 ELSE [self |-> after_a.self, ret |-> FALSE]
             Cleared(cleared, row_a, row_b) ==
                 IF row_a = {} \/ row_b = {}
                     THEN [self |-> [cleared EXCEPT !.incomplete = TRUE], ret |-> TRUE]
                 ELSE AfterA(IF is_power_of_two(row_a)
                                 THEN remove_others_a(cleared, channel_a,
                                                      trailing_zeros(row_a), 0)
                                 ELSE [self |-> cleared, ret |-> FALSE],
                             row_b)
             Rows(row_a, row_b) ==
                 Cleared([self EXCEPT !.matches_a[channel_a] = row_a,
                                      !.matches_b[channel_b] = row_b],
                         row_a, row_b)
         IN Rows(self.matches_a[channel_a] \ {channel_b},
                 self.matches_b[channel_b] \ {channel_a})

select(self, channel_a, channel_b) ==
    IF self.incomplete THEN [self |-> self, ret |-> TRUE]
    ELSE IF ~contains(self, channel_a, channel_b)
        THEN [self |-> [self EXCEPT !.incomplete = TRUE], ret |-> TRUE]
    ELSE LET \* after the loop over other_channel_lo
             Lo(lo) ==
                 IF lo.ret THEN lo
                 ELSE remove_others_b(lo.self, channel_b, channel_a, 0)
         IN Lo(remove_others_a(self, channel_a, channel_b, 0))

\* The rows of side B after a swap of two channels of side A: a row holding
\* exactly one of the two bits has both flipped.
swap_channels_a(self, channel_a_0, channel_a_1) ==
    LET col_b_both == {channel_a_0, channel_a_1}
        Flipped(row_b) ==
            LET exchange == row_b \cap col_b_both
                flip == (exchange = {channel_a_0}) \/ (exchange = {channel_a_1})
            IN IF flip THEN (row_b \ col_b_both) \cup (col_b_both \ row_b) ELSE row_b
    IN [self EXCEPT
          !.matches_a = [self.matches_a EXCEPT
                            ![channel_a_0] = self.matches_a[channel_a_1],
                            ![channel_a_1] = self.matches_a[channel_a_0]],
          !.matches_b = Eager([b \in DOMAIN self.matches_b |->
                                  Flipped(self.matches_b[b])])]

Matching_swap_sides(self) ==
    [self EXCEPT !.matches_a = self.matches_b, !.matches_b = self.matches_a]

swap_channels_b(self, channel_b_0, channel_b_1) ==
    Matching_swap_sides(
        swap_channels_a(Matching_swap_sides(self), channel_b_0, channel_b_1))

\* filter: pred is the table of the closure's values.  at = a * len + b is
\* the position in the double loop.
RECURSIVE filter_loop(_, _, _)
filter_loop(self, pred, at) ==
    LET len == Cardinality(DOMAIN self.matches_a)
        a == at \div len
        b == at % len
        Removed(r) == IF r.ret THEN r ELSE filter_loop(r.self, pred, at + 1)
    IN IF len = 0 \/ at >= len * len THEN [self |-> self, ret |-> FALSE]
       ELSE IF contains(self, a, b) /\ ~pred[a, b]
           THEN Removed(remove(self, a, b))
       ELSE filter_loop(self, pred, at + 1)

filter(self, pred) ==
    IF self.incomplete THEN [self |-> self, ret |-> TRUE]
    ELSE filter_loop(self, pred, 0)

\* Option<usize>
unique_match_a(self, channel_a) ==
    IF self.incomplete \/ ~is_power_of_two(self.matches_a[channel_a])
        THEN [is_some |-> FALSE, value |-> 0]
        ELSE [is_some |-> TRUE, value |-> trailing_zeros(self.matches_a[channel_a])]

matches_a(self, channel_a) == self.matches_a[channel_a]

matches_b(self, channel_b) == self.matches_b[channel_b]

(***************************************************************************)
(* AbstractedPair<usize> and the subsume tree.  A Result is a record with  *)
(* ok (Ok or Err); Err carries the returned pair.                          *)
(***************************************************************************)
AbstractedPair_new(output_set, item) ==
    [abstraction |-> abstraction(output_set), output_set |-> output_set, item |-> item]

\* combine dropping the other payload.
combine_drops_other(self, perm, other) == self

\* impl SubsumeIndexItem for usize
combine(self, perm, other) == self + other

Leaf(pair) == [leaf |-> TRUE, pair |-> pair]

Inner(abs, child_0, child_1, len) ==
    [leaf |-> FALSE, abstraction |-> abs, children |-> <<child_0, child_1>>, len |-> len]

\* The while-let loop at the head of Node::new: equal output sets at the end
\* of the vector are folded into one item.
RECURSIVE coalesce_last(_)
coalesce_last(items) ==
    LET n == Len(items)
    IN IF n >= 2 /\ items[n - 1].output_set = items[n].output_set
           THEN coalesce_last(
                    [SubSeq(items, 1, n - 1) EXCEPT
                        ![n - 1].item = combine(items[n - 1].item,
                                                IdPerm(items[n].output_set.channels),
                                                items[n].item)])
           ELSE items

Reverse(seq) == [k \in 1 .. Len(seq) |-> seq[(Len(seq) + 1) - k]]

\* sort_unstable_by_key: the items in ascending order of their key.  Items
\* with equal keys keep their order (as the insertion sort that the standard
\* library runs on short slices leaves them) or have it reversed.
RECURSIVE sort_unstable_by_key(_, _)
sort_unstable_by_key(items, index) ==
    IF Len(items) <= 1 THEN items
    ELSE LET Key(pair) == pair.abstraction.values[index]
             least == CHOOSE k \in {Key(items[i]) : i \in 1 .. Len(items)} :
                         \A i \in 1 .. Len(items) : k <= Key(items[i])
             equal == SelectSeq(items, LAMBDA pair : Key(pair) = least)
         IN (IF equal_keys = "reversed" THEN Eager(Reverse(equal)) ELSE equal)
              \o sort_unstable_by_key(SelectSeq(items, LAMBDA pair : Key(pair) # least),
                                      index)

\* for pair in items[from..=to] { min_abstraction.update_min(&pair.abstraction) }
\* The range is split in halves, run in order, to keep the evaluation
\* shallow (the test on acc has the first half evaluated before the second
\* is entered).
RECURSIVE fold_min(_, _, _, _)
fold_min(items, from, to, acc) ==
    IF from > to \/ acc.channels < 0 THEN acc
    ELSE IF from = to THEN update_min(acc, items[from].abstraction)
    ELSE LET mid == (from + to) \div 2
         IN fold_min(items, mid + 1, to, fold_min(items, from, mid, acc))

\* for pair in items[from..=to] { max_abstraction.update_max(&pair.abstraction) }
RECURSIVE fold_max(_, _, _, _)
fold_max(items, from, to, acc) ==
    IF from > to \/ acc.channels < 0 THEN acc
    ELSE IF from = to THEN update_max(acc, items[from].abstraction)
    ELSE LET mid == (from + to) \div 2
         IN fold_max(items, mid + 1, to, fold_max(items, from, mid, acc))

RECURSIVE Node_new(_)
Node_new(items_in) ==
    LET Split(sorted, min_abstraction, len) ==
            Inner(min_abstraction,
                  Node_new(SubSeq(sorted, 1, len \div 2)),
                  Node_new(SubSeq(sorted, (len \div 2) + 1, len)),
                  len)
        Ranged(items, range, min_abstraction) ==
            Split(sort_unstable_by_key(items, IF range.is_some THEN range.value ELSE 0),
                  min_abstraction, Len(items))
        Folded(items, min_abstraction, max_abstraction) ==
            Ranged(items, largest_range(min_abstraction, max_abstraction), min_abstraction)
        Coalesced(items) ==
            IF Len(items) = 1 THEN Leaf(items[1])
            ELSE Folded(items,
                        fold_min(items, 2, Len(items), items[1].abstraction),
                        fold_max(items, 2, Len(items), items[1].abstraction))
    IN Coalesced(coalesce_last(items_in))

Node_len(self) == IF self.leaf THEN 1 ELSE self.len

Node_abstraction(self) == IF self.leaf THEN self.pair.abstraction ELSE self.abstraction

\* drain_using: the pairs of the leaves, left to right.
RECURSIVE Node_drain(_)
Node_drain(self) ==
    IF self.leaf THEN <<self.pair>>
    ELSE Node_drain(self.children[1]) \o Node_drain(self.children[2])

\* The first loop of combine_permuted; st holds matching, perm, pair and
\* unique_matched.
RECURSIVE rotate_unique(_, _, _)
rotate_unique(st, channel_a, channels) ==
    IF channel_a >= channels THEN st
    ELSE LET Matched(channel_b) ==
                 IF channel_b = channel_a
                     THEN rotate_unique([st EXCEPT !.unique_matched = @ + 1],
                                        channel_a + 1, channels)
                 ELSE rotate_unique(
                     [matching |-> swap_channels_b(st.matching, channel_b, channel_a),
                      perm |-> [st.perm EXCEPT ![channel_b] = st.perm[channel_a],
                                               ![channel_a] = st.perm[channel_b]],
                      pair |-> [st.pair EXCEPT
                                  !.abstraction = abstraction_swap_channels(@, channel_b, channel_a),
                                  !.output_set = swap_channels(@, channel_b, channel_a)],
                      unique_matched |-> st.unique_matched + 1],
                     channel_a + 1, channels)
             Unique(unique) ==
                 IF ~unique.is_some THEN rotate_unique(st, channel_a + 1, channels)
                 ELSE Matched(unique.value)
         IN Unique(unique_match_a(st.matching, channel_a))

\* (0..channels).map(|a| (matching.matches_a(a).count_ones(), a))
\*     .filter(|&(count, _)| count > 1).min().unwrap()
min_count_row(matching, channels) ==
    LET rows == {<<Cardinality(matches_a(matching, a)), a>> : a \in Channels(channels)}
        many == {r \in rows : r[1] > 1}
    IN CHOOSE r \in many : \A q \in many : r = q \/ LessPair(r, q)

\* The arguments of next_matching.select in the k-th turn of the loop that
\* combine_permuted takes when it branches: count_a and count_b are both
\* taken from matches_a.
branch_select(matching, channels, k) ==
    LET Branch(row_a, row_b) ==
            IF row_a[1] < row_b[1] THEN <<row_a[2], k>> ELSE <<k, row_b[2]>>
    IN Branch(min_count_row(matching, channels), min_count_row(matching, channels))

\* combine_permuted leaving the rotated query in the pair it hands back.
restore_nothing(pair, orig_abstraction, orig_output_set) == pair

\* pair.abstraction = orig_abstraction; pair.output_set = orig_output_set;
restore(pair, orig_abstraction, orig_output_set) ==
    [pair EXCEPT !.abstraction = orig_abstraction, !.output_set = orig_output_set]

RECURSIVE combine_permuted(_, _, _, _)
RECURSIVE branch_on_a(_, _, _, _, _, _)
RECURSIVE branch_on_b(_, _, _, _, _, _)

\* for channel_b in from..channels: the loop taken when count_a < count_b.
branch_on_a(node_pair, pair, perm, matching, channel_a, from) ==
    IF from >= node_pair.output_set.channels
        THEN [ok |-> FALSE, pair |-> pair, errs |-> <<>>]
    ELSE LET Returned(r) ==
                 IF r.ok THEN r
                 ELSE [branch_on_a(node_pair, r.pair, perm, matching, channel_a, from + 1)
                          EXCEPT !.errs = r.errs \o @]
             Selected(next_matching) ==
                 IF next_matching.ret
                     THEN branch_on_a(node_pair, pair, perm, matching, channel_a, from + 1)
                     ELSE Returned(combine_permuted(node_pair, pair, perm,
                                                    next_matching.self))
         IN Selected(select(matching, channel_a, from))

\* for channel_a in from..channels: the loop taken otherwise.
branch_on_b(node_pair, pair, perm, matching, channel_b, from) ==
    IF from >= node_pair.output_set.channels
        THEN [ok |-> FALSE, pair |-> pair, errs |-> <<>>]
    ELSE LET Returned(r) ==
                 IF r.ok THEN r
                 ELSE [branch_on_b(node_pair, r.pair, perm, matching, channel_b, from + 1)
                          EXCEPT !.errs = r.errs \o @]
             Selected(next_matching) ==
                 IF next_matching.ret
                     THEN branch_on_b(node_pair, pair, perm, matching, channel_b, from + 1)
                     ELSE Returned(combine_permuted(node_pair, pair, perm,
                                                    next_matching.self))
         IN Selected(select(matching, from, channel_b))

\* Ok carries what the call did: the leaf's new payload (item), and the
\* arguments of the one combine call (perm, and the query as rotated: with).
\* Err carries the pair handed back.  Both carry errs, the history of the
\* calls of combine_permuted that returned Err, in the order they returned:
\* the pair each was given, that pair after the first loop, and the pair it
\* handed back.
combine_permuted(node_pair, pair_in, perm_in, matching_in) ==
    LET channels == node_pair.output_set.channels
        orig_abstraction == pair_in.abstraction
        orig_output_set == pair_in.output_set
        Restored(pair) == restore(pair, orig_abstraction, orig_output_set)
        \* The code after the first loop, which left st.
        Rotated(st) ==
            LET Err(pair, errs) ==
                    [ok |-> FALSE, pair |-> pair,
                     errs |-> Append(errs, [given |-> pair_in, rotated |-> st.pair,
                                            returned |-> pair])]
                Branched(r) == IF r.ok THEN r ELSE Err(Restored(r.pair), r.errs)
                Branch(row_a, row_b) ==
                    LET count_a == row_a[1]
                        channel_a == row_a[2]
                        count_b == row_b[1]
                        channel_b == row_b[2]
                    IN Branched(IF count_a < count_b
                                    THEN branch_on_a(node_pair, st.pair, st.perm,
                                                     st.matching, channel_a, 0)
                                    ELSE branch_on_b(node_pair, st.pair, st.perm,
                                                     st.matching, channel_b, 0))
            IN IF st.unique_matched = channels
                   THEN IF subsumes(node_pair.output_set, st.pair.output_set)
                            THEN [ok |-> TRUE,
                                  item |-> combine(node_pair.item, st.perm, st.pair.item),
                                  perm |-> st.perm,
                                  with |-> st.pair,
                                  errs |-> <<>>]
                            ELSE Err(Restored(st.pair), <<>>)
               ELSE Branch(min_count_row(st.matching, channels),
                           min_count_row(st.matching, channels))
    IN Rotated(rotate_unique([matching |-> matching_in, perm |-> perm_in,
                              pair |-> pair_in, unique_matched |-> 0], 0, channels))

\* matching.filter(|node_channel, pair_channel|
\*     node_abstraction.channel_le(node_channel, &pair.abstraction, pair_channel))
filtered_matching(self, pair, matching_in) ==
    LET node_abstraction == Node_abstraction(self)
        channels == pair.output_set.channels
        pred == Eager([ab \in Channels(channels) \X Channels(channels) |->
                    channel_le(node_abstraction, ab[1], pair.abstraction, ab[2])])
    IN filter(matching_in, pred)

\* Ok carries the tree with the leaf's payload combined, the path to that
\* leaf (the child taken at each inner node) and the combine call.
RECURSIVE combine_with_subsuming_rec(_, _, _)
combine_with_subsuming_rec(self, pair, matching_in) ==
    LET Found(r) ==
            IF r.ok
                THEN [ok |-> TRUE,
                      node |-> [self EXCEPT !.pair.item = r.item],
                      path |-> <<>>, perm |-> r.perm, with |-> r.with,
                      errs |-> r.errs]
                ELSE r
        Second(r0, r1) ==
            IF r1.ok
                THEN [r1 EXCEPT !.node = [self EXCEPT !.children[2] = r1.node],
                                !.path = <<1>> \o @,
                                !.errs = r0.errs \o @]
                ELSE [r1 EXCEPT !.errs = r0.errs \o @]
        First(r0, matching) ==
            IF r0.ok
                THEN [r0 EXCEPT !.node = [self EXCEPT !.children[1] = r0.node],
                                !.path = <<0>> \o @]
                ELSE Second(r0, combine_with_subsuming_rec(self.children[2], r0.pair,
                                                           matching))
        Filtered(filtered) ==
            IF filtered.ret THEN [ok |-> FALSE, pair |-> pair, errs |-> <<>>]
            ELSE IF self.leaf
                THEN Found(combine_permuted(self.pair, pair,
                                            IdPerm(self.pair.output_set.channels),
                                            filtered.self))
            ELSE First(combine_with_subsuming_rec(self.children[1], pair, filtered.self),
                       filtered.self)
    IN Filtered(filtered_matching(self, pair, matching_in))

combine_with_subsuming(self, pair) ==
    combine_with_subsuming_rec(self, pair, Matching_new(pair.output_set.channels))

\* NodeIter: the pairs of the leaves in the order the stack yields them
\* (the children are pushed in order and popped from the end).
RECURSIVE Node_iter(_)
Node_iter(self) ==
    IF self.leaf THEN <<self.pair>>
    ELSE Node_iter(self.children[2]) \o Node_iter(self.children[1])

\* The order in which a Node, driven as a parallel iterator, delivers its
\* pairs to an order-preserving consumer: while the splitter has splits left
\* (it starts with the number of threads and halves at every split) the node
\* is split into its children, the left one first; a part that is no longer
\* split is folded by NodeIter.
RECURSIVE Node_par_iter(_, _)
Node_par_iter(self, splits) ==
    IF splits > 0 /\ ~self.leaf
        THEN Node_par_iter(self.children[1], splits \div 2)
               \o Node_par_iter(self.children[2], splits \div 2)
        ELSE Node_iter(self)

\* pairs[from..=to].flat_map(|pair| node.combine_with_subsuming(pair).err()):
\* acc holds the node, with the payloads of the subsumed pairs combined, and
\* the pairs that came back so far.  The range is split in halves, run in
\* order.
RECURSIVE flat_map_err(_, _, _, _)
flat_map_err(pairs, from, to, acc) ==
    IF from > to \/ Len(acc.rejected) < 0 THEN acc
    ELSE IF from = to
        THEN LET Tested(r) ==
                     IF r.ok THEN [node |-> r.node, rejected |-> acc.rejected]
                     ELSE [node |-> acc.node, rejected |-> Append(acc.rejected, r.pair)]
             IN Tested(combine_with_subsuming(acc.node, pairs[from]))
    ELSE LET mid == (from + to) \div 2
         IN flat_map_err(pairs, mid + 1, to, flat_map_err(pairs, from, mid, acc))

\* node_pairs.flat_map(|pair| node.combine_with_subsuming(pair).err()).collect()
collect_err(node, pairs) ==
    flat_map_err(pairs, 1, Len(pairs), [node |-> node, rejected |-> <<>>])

RECURSIVE minimal_elements(_, _)

\* minimal_elements without the second pass: the pairs of child_0 are not
\* tested against child_1.
minimal_elements_one_pass(self, threads) ==
    IF self.leaf THEN <<self.pair>>
    ELSE LET First(first) ==
                 IF first.rejected = <<>> THEN Node_par_iter(first.node, threads)
                 ELSE Node_par_iter(first.node, threads)
                        \o minimal_elements(Node_new(first.rejected), threads)
         IN First(collect_err(Node_new(minimal_elements(self.children[1], threads)),
                              Node_par_iter(self.children[2], threads)))

minimal_elements(self, threads) ==
    IF self.leaf THEN <<self.pair>>
    ELSE LET \* second: child_1 and the pairs of child_0 it sent back.
             Second(second) == second.rejected \o minimal_elements(second.node, threads)
             \* first: child_0 and the pairs of child_1 it sent back.
             First(first) ==
                 IF first.rejected = <<>> THEN Node_par_iter(first.node, threads)
                 ELSE Second(collect_err(Node_new(first.rejected),
                                         Node_par_iter(first.node, threads)))
         IN First(collect_err(Node_new(minimal_elements(self.children[1], threads)),
                              Node_par_iter(self.children[2], threads)))

(***************************************************************************)
(* SubsumeIndex: trees is the vector of trees, len the count the index     *)
(* keeps.                                                                  *)
(***************************************************************************)
SubsumeIndex_default == [trees |-> <<>>, len |-> 0]

\* SubsumeIndex::combine_with_subsuming: the trees from the k-th on are
\* asked in order; Ok carries the trees with the payload combined.
RECURSIVE index_combine_with_subsuming(_, _, _)
index_combine_with_subsuming(trees, pair, k) ==
    IF k > Len(trees) THEN [ok |-> FALSE, pair |-> pair]
    ELSE LET Returned(r) ==
                 IF r.ok THEN [ok |-> TRUE, trees |-> [trees EXCEPT ![k] = r.node]]
                 ELSE index_combine_with_subsuming(trees, r.pair, k + 1)
         IN Returned(combine_with_subsuming(trees[k], pair))

\* merge_trees putting the pairs of both trees into the new tree, with no
\* test of the second last tree's pairs against the last tree.
RECURSIVE merge_trees_untested(_, _)
merge_trees_untested(self, all) ==
    LET n == Len(self.trees)
        last_tree == self.trees[n]
        second_last_tree == self.trees[n - 1]
        Merged(new_tree) ==
            merge_trees_untested(
                [trees |-> Append(SubSeq(self.trees, 1, n - 2), new_tree),
                 len |-> ((self.len - Node_len(last_tree)) - Node_len(second_last_tree))
                           + Node_len(new_tree)],
                all)
    IN IF n < 2 THEN self
       ELSE IF ~all /\ Node_len(second_last_tree) > Node_len(last_tree) THEN self
       ELSE Merged(Node_new(Node_drain(second_last_tree) \o Node_drain(last_tree)))

\* merge_trees returning also when the last two trees have the same size.
RECURSIVE merge_trees_keeps_equal(_, _)
merge_trees_keeps_equal(self, all) ==
    LET n == Len(self.trees)
        last_tree == self.trees[n]
        second_last_tree == self.trees[n - 1]
        Merged(new_tree) ==
            merge_trees_keeps_equal(
                [trees |-> Append(SubSeq(self.trees, 1, n - 2), new_tree),
                 len |-> ((self.len - Node_len(last_tree)) - Node_len(second_last_tree))
                           + Node_len(new_tree)],
                all)
        Tested(tested) == Merged(Node_new(tested.rejected \o Node_drain(tested.node)))
    IN IF n < 2 THEN self
       ELSE IF ~all /\ Node_len(second_last_tree) >= Node_len(last_tree) THEN self
       ELSE Tested(collect_err(last_tree, Node_drain(second_last_tree)))

RECURSIVE merge_trees(_, _)
merge_trees(self, all) ==
    LET n == Len(self.trees)
        last_tree == self.trees[n]
        second_last_tree == self.trees[n - 1]
        Merged(new_tree) ==
            merge_trees(
                [trees |-> Append(SubSeq(self.trees, 1, n - 2), new_tree),
                 len |-> ((self.len - Node_len(last_tree)) - Node_len(second_last_tree))
                           + Node_len(new_tree)],
                all)
        \* tested: last_tree and the pairs of second_last_tree it sent back.
        Tested(tested) == Merged(Node_new(tested.rejected \o Node_drain(tested.node)))
    IN IF n < 2 THEN self
       ELSE IF ~all /\ Node_len(second_last_tree) > Node_len(last_tree) THEN self
       ELSE Tested(collect_err(last_tree, Node_drain(second_last_tree)))

insert(self, pair) ==
    LET Returned(r) ==
            IF r.ok THEN [self EXCEPT !.trees = r.trees]
            ELSE merge_trees([trees |-> Append(self.trees, Leaf(r.pair)),
                              len |-> self.len + 1], FALSE)
    IN Returned(index_combine_with_subsuming(self.trees, pair, 1))

subsume_all(self) == merge_trees(self, TRUE)

\* SubsumeIndex::drain_using: the pairs handed to target, in order.
RECURSIVE drain_using(_, _)
drain_using(self, k) ==
    IF k > Len(self.trees) THEN <<>>
    ELSE Node_drain(self.trees[k]) \o drain_using(self, k + 1)

(***************************************************************************)
(* State.                                                                  *)
(*                                                                         *)
(* The output-set machine: the set a caller holds, the set it held before  *)
(* the last operation, that operation with its arguments and result,       *)
(* whether only comparators (i, j) with i < j were applied so far, and the *)
(* position in SORT_11 of test::sort_11_sorts (-1 outside that test).      *)
(*                                                                         *)
(* The tree machine: the vector given to Node::new, the tree (an Option,   *)
(* a sequence of at most one Node), the tree before the last query, the    *)
(* queries made (the last one is the last element), the Result of the last *)
(* query, the vector minimal_elements returned, the width for which        *)
(* test::build_index runs (0 outside that test), and the phase.            *)
(*                                                                         *)
(* The index machine: a SubsumeIndex, the batch of output sets to insert,  *)
(* the order in which the second index is given them, which of the two     *)
(* indexes is at work (run), the number of inserts made into it, the       *)
(* vectors the indexes were drained into, and the phase.                   *)
(*                                                                         *)
(* incremental_minimal_elements: inputs (each input stands for the vector  *)
(* the generator makes of it), the three queues, chunk_size, node (an      *)
(* Option), the number of threads of the pool, the position of the calling *)
(* thread (main) and of each spawned closure (worker), the pair a closure  *)
(* holds between the test against node and the push (held), what is left   *)
(* of the vector a closure iterates over (generating), the number of pairs *)
(* pushed to the spill queue so far, and the vector returned.              *)
(***************************************************************************)
VARIABLES set, prev, op, only_lt, net,
          items, tree, tree_before, queries, res, minimal, build_index, phase,
          index, batch, order, run, done, drained, index_phase,
          inputs, input_queue, spill_queue, output_queue, chunk_size, node,
          num_threads, main, worker, held, generating, spilled, popped, returned,
          call, outcome, mat, mat_before, mat_op

setVars == <<set, prev, op, only_lt, net>>

treeVars == <<items, tree, tree_before, queries, res, minimal, build_index, phase>>

indexVars == <<index, batch, order, run, done, drained, index_phase>>

incVars == <<inputs, input_queue, spill_queue, output_queue, chunk_size, node,
             num_threads, main, worker, held, generating, spilled, popped,
             returned>>

callVars == <<call, outcome>>

matchVars == <<mat, mat_before, mat_op>>

vars == <<set, prev, op, only_lt, net,
          items, tree, tree_before, queries, res, minimal, build_index, phase,
          index, batch, order, run, done, drained, index_phase,
          inputs, input_queue, spill_queue, output_queue, chunk_size, node,
          num_threads, main, worker, held, generating, spilled, popped, returned,
          call, outcome, mat, mat_before, mat_op,
          equal_keys>>

IdleCall ==
    /\ call = <<>>
    /\ outcome = <<>>

IdleMatch ==
    /\ mat = <<>>
    /\ mat_before = <<>>
    /\ mat_op = <<>>

IdleSet ==
    /\ set = <<>>
    /\ prev = <<>>
    /\ op = <<>>
    /\ only_lt = TRUE
    /\ net = -1

IdleTree ==
    /\ items = <<>>
    /\ tree = <<>>
    /\ tree_before = <<>>
    /\ queries = <<>>
    /\ res = <<>>
    /\ minimal = <<>>
    /\ build_index = 0
    /\ phase = "idle"

IdleInc ==
    /\ inputs = <<>>
    /\ input_queue = <<>>
    /\ spill_queue = <<>>
    /\ output_queue = <<>>
    /\ chunk_size = 0
    /\ node = <<>>
    /\ num_threads = 0
    /\ main = "idle"
    /\ worker = <<>>
    /\ held = <<>>
    /\ generating = <<>>
    /\ spilled = 0
    /\ popped = 0
    /\ returned = <<>>

IdleIndex ==
    /\ index = <<>>
    /\ batch = <<>>
    /\ order = <<>>
    /\ run = 0
    /\ done = 0
    /\ drained = <<>>
    /\ index_phase = "idle"

(***************************************************************************)
(* The output-set machine.                                                 *)
(***************************************************************************)
SORT_11 ==
    << <<0, 9>>, <<1, 6>>, <<2, 4>>, <<3, 7>>, <<5, 8>>,
       <<0, 1>>, <<3, 5>>, <<4, 10>>, <<6, 9>>, <<7, 8>>,
       <<1, 3>>, <<2, 5>>, <<4, 7>>, <<8, 10>>,
       <<0, 4>>, <<1, 2>>, <<3, 7>>, <<5, 9>>, <<6, 8>>,
       <<0, 1>>, <<2, 6>>, <<4, 5>>, <<7, 8>>, <<9, 10>>,
       <<2, 4>>, <<3, 6>>, <<5, 7>>, <<8, 9>>,
       <<1, 2>>, <<3, 4>>, <<5, 6>>, <<7, 8>>,
       <<2, 3>>, <<4, 5>>, <<6, 7>> >>

Sort11Channels == 11

NoOp == [name |-> "all_values", a |-> 0, b |-> 0, perm |-> <<>>]

InitSet ==
    /\ \/ \E w \in 1 .. MaxChannels : set = all_values(w) /\ net = -1
       \/ set = all_values(Sort11Channels) /\ net = 0
    /\ prev = set
    /\ op = NoOp
    /\ only_lt = TRUE
    /\ IdleTree
    /\ IdleIndex
    /\ IdleInc
    /\ IdleCall
    /\ IdleMatch
    /\ equal_keys = "kept"

ApplyComparator ==
    /\ net = -1
    /\ \E a, b \in Channels(set.channels) :
          /\ a # b
          /\ set' = apply_comparator(set, a, b)
          /\ op' = [name |-> "apply_comparator", a |-> a, b |-> b, perm |-> <<>>]
          /\ only_lt' = (only_lt /\ a < b)
    /\ prev' = set
    /\ UNCHANGED <<net, treeVars, indexVars, incVars, callVars, matchVars, equal_keys>>

SwapChannels ==
    /\ net = -1
    /\ \E a, b \in Channels(set.channels) :
          /\ set' = swap_channels(set, a, b)
          /\ op' = [name |-> "swap_channels", a |-> a, b |-> b, perm |-> <<>>]
    /\ prev' = set
    /\ only_lt' = FALSE
    /\ UNCHANGED <<net, treeVars, indexVars, incVars, callVars, matchVars, equal_keys>>

PermuteChannels ==
    /\ net = -1
    /\ \E perm \in Perms(set.channels) :
          /\ set' = permute_channels(set, perm)
          /\ op' = [name |-> "permute_channels", a |-> 0, b |-> 0, perm |-> perm]
    /\ prev' = set
    /\ only_lt' = FALSE
    /\ UNCHANGED <<net, treeVars, indexVars, incVars, callVars, matchVars, equal_keys>>

OrderChannelsByWeight ==
    /\ net = -1
    /\ LET r == order_channels_by_weight(set)
       IN /\ set' = r.set
          /\ op' = [name |-> "order_channels_by_weight", a |-> 0, b |-> 0,
                    perm |-> r.perm]
    /\ prev' = set
    /\ only_lt' = FALSE
    /\ UNCHANGED <<net, treeVars, indexVars, incVars, callVars, matchVars, equal_keys>>

\* One iteration of the loop of test::sort_11_sorts.
Sort11Step ==
    /\ net >= 0
    /\ net < Len(SORT_11)
    /\ LET a == SORT_11[net + 1][1]
           b == SORT_11[net + 1][2]
       IN /\ set' = apply_comparator(set, a, b)
          /\ op' = [name |-> "apply_comparator", a |-> a, b |-> b, perm |-> <<>>]
    /\ prev' = set
    /\ net' = net + 1
    /\ UNCHANGED <<only_lt, treeVars, indexVars, incVars, callVars, matchVars, equal_keys>>

NextSet ==
    \/ ApplyComparator
    \/ SwapChannels
    \/ PermuteChannels
    \/ OrderChannelsByWeight
    \/ Sort11Step

SpecSet == InitSet /\ [][NextSet]_vars

(***************************************************************************)
(* The tree machine.                                                       *)
(***************************************************************************)
\* The comparators (i, j), i < j, in the order of the loops of
\* test::gen_some_output_sets: for j in 0..channels, for i in 0..j.
Comparators(channels) ==
    LET Pairs == {c \in Channels(channels) \X Channels(channels) : c[1] < c[2]}
        Pos(c) == ((c[2] * (c[2] - 1)) \div 2) + c[1] + 1
    IN Eager([k \in 1 .. Cardinality(Pairs) |-> CHOOSE c \in Pairs : Pos(c) = k])

\* The output sets that at most depth comparators make of all_values.
RECURSIVE Generated(_, _)
Generated(channels, depth) ==
    IF depth = 0 THEN {all_values(channels)}
    ELSE LET shorter == Generated(channels, depth - 1)
             cs == Comparators(channels)
         IN shorter \cup {apply_comparator(s, cs[k][1], cs[k][2]) :
                            s \in shorter, k \in 1 .. Len(cs)}

\* The output sets put into trees and asked for: the generated ones, as they
\* are and with their channels ordered by weight.
Pool ==
    Eager([w \in 2 .. MaxChannels |->
        LET generated == Generated(w, MaxDepth)
        IN generated \cup {order_channels_by_weight(s).set : s \in generated}])

\* test::gen_some_output_sets
gen_some_output_sets(channels) ==
    LET cs == Comparators(channels)
        n == Len(cs)
        all == all_values(channels)
    IN Eager([k \in 1 .. (n * n * n) |->
          LET first == cs[((k - 1) \div (n * n)) + 1]
              second == cs[(((k - 1) \div n) % n) + 1]
              third == cs[((k - 1) % n) + 1]
              tmp == apply_comparator(all, first[1], first[2])
              tmp_2 == apply_comparator(tmp, second[1], second[2])
              tmp_3 == apply_comparator(tmp_2, third[1], third[2])
          IN order_channels_by_weight(tmp_3).set])

\* The expected sizes of test::build_index, for 3, 4, ... channels.
BuildIndexExpected == <<1, 4, 6, 7, 7, 7>>

BuildIndexFirst == 3

\* The w + 1 values 2^k - 1, ascending.
PrefixesOfOnes(w) == [k \in 1 .. (w + 1) |-> (2 ^ (k - 1)) - 1]

\* The output sets asked for in a tree of test::build_index: all_values, the
\* sets one comparator makes of it, and the sorted set.
BuildIndexQueries ==
    Eager([channels \in BuildIndexFirst .. MaxBuildIndexChannels |->
        Generated(channels, 1)
          \cup {[channels |-> channels, values |-> PrefixesOfOnes(channels)]}])

\* test::build_index: the items handed to Node::new, for each number of
\* channels of the loop.
BuildIndexItems ==
    Eager([channels \in BuildIndexFirst .. MaxBuildIndexChannels |->
        LET sets == gen_some_output_sets(channels)
        IN Eager([k \in 1 .. Len(sets) |-> AbstractedPair_new(sets[k], 1)])])

InitTree ==
    /\ \/ /\ build_index = 0
          /\ \E w \in 2 .. MaxChannels : \E n \in 1 .. MaxItems :
                \E sets \in [1 .. n -> Pool[w]] :
                   items = [k \in 1 .. n |-> AbstractedPair_new(sets[k], 1)]
       \/ /\ build_index \in BuildIndexFirst .. MaxBuildIndexChannels
          /\ items = BuildIndexItems[build_index]
    /\ tree = <<>>
    /\ tree_before = <<>>
    /\ queries = <<>>
    /\ res = <<>>
    /\ minimal = <<>>
    /\ phase = "items"
    /\ IdleCall
    /\ IdleMatch
    /\ equal_keys \in {"kept", "reversed"}
    /\ IdleSet
    /\ IdleIndex
    /\ IdleInc

\* Node::new(items)
New ==
    /\ phase = "items"
    /\ tree' = <<Node_new(items)>>
    /\ phase' = "tree"
    /\ UNCHANGED <<items, tree_before, queries, res, minimal, build_index, setVars, indexVars, incVars, callVars, matchVars, equal_keys>>

\* tree.combine_with_subsuming(AbstractedPair::new(output_set, 1))
Query ==
    /\ phase = "tree"
    /\ Len(queries) < MaxQueries
    /\ \E output_set \in IF build_index = 0 THEN Pool[items[1].output_set.channels]
                                             ELSE BuildIndexQueries[build_index] :
          LET Returned(pair, r) ==
                  /\ queries' = Append(queries, pair)
                  /\ res' = <<r>>
                  /\ tree' = IF r.ok THEN <<r.node>> ELSE tree
              Asked(pair) == Returned(pair, combine_with_subsuming(tree[1], pair))
          IN Asked(AbstractedPair_new(output_set, 1))
    /\ tree_before' = tree
    /\ UNCHANGED <<items, minimal, build_index, phase, setVars, indexVars, incVars, callVars, matchVars, equal_keys>>

\* tree.minimal_elements(); the pool has threads threads.
MinimalElements ==
    /\ phase = "tree"
    /\ \E threads \in 1 .. MaxThreads :
          minimal' = minimal_elements(tree[1], threads)
    /\ tree' = <<>>
    /\ phase' = "minimal"
    /\ UNCHANGED <<items, tree_before, queries, res, build_index, setVars, indexVars, incVars, callVars, matchVars, equal_keys>>

NextTree ==
    \/ New
    \/ Query
    \/ MinimalElements

SpecTree == InitTree /\ [][NextTree]_vars

(***************************************************************************)
(* The index machine: a batch of pairs with the counting payload is        *)
(* inserted into an empty SubsumeIndex, which is then merged by            *)
(* subsume_all and drained; after that the same batch is inserted, in any  *)
(* order, into a second empty index, merged and drained.  The batch is     *)
(* taken in one fixed order of the output sets (by Rank), so that the      *)
(* second run ranges over all its orders.                                  *)
(***************************************************************************)
\* A number that tells the output sets of one width apart.
RECURSIVE Rank(_, _)
Rank(values, k) == IF k > Len(values) THEN 0 ELSE (2 ^ values[k]) + Rank(values, k + 1)

Batches(w) ==
    UNION {{b \in [1 .. n -> Pool[w]] :
               \A k \in 1 .. (n - 1) : Rank(b[k].values, 1) <= Rank(b[k + 1].values, 1)} :
           n \in 1 .. MaxBatch}

Orders(n) == {o \in [1 .. n -> 1 .. n] : \A k, l \in 1 .. n : o[k] = o[l] => k = l}

InitIndex ==
    /\ \E w \in 2 .. MaxChannels : batch \in Batches(w)
    /\ order = [k \in 1 .. Len(batch) |-> k]
    /\ run = 1
    /\ done = 0
    /\ index = SubsumeIndex_default
    /\ drained = <<>>
    /\ index_phase = "insert"
    /\ IdleCall
    /\ IdleMatch
    /\ equal_keys \in {"kept", "reversed"}
    /\ IdleSet
    /\ IdleTree
    /\ IdleInc

\* index.insert(AbstractedPair::new(output_set, 1)), for the next output set
\* of the batch in the order of the run.
Insert ==
    /\ index_phase = "insert"
    /\ done < Len(batch)
    /\ index' = insert(index, AbstractedPair_new(batch[order[done + 1]], 1))
    /\ done' = done + 1
    /\ UNCHANGED <<batch, order, run, drained, index_phase, setVars, treeVars, incVars, callVars, matchVars, equal_keys>>

\* index.subsume_all(), after the last insert.
SubsumeAll ==
    /\ index_phase = "insert"
    /\ done = Len(batch)
    /\ index' = subsume_all(index)
    /\ index_phase' = "subsumed"
    /\ UNCHANGED <<batch, order, run, done, drained, setVars, treeVars, incVars, callVars, matchVars, equal_keys>>

\* index.drain_using(|pair| drained.push(pair)); the index is consumed.
DrainUsing ==
    /\ index_phase = "subsumed"
    /\ drained' = Append(drained, drain_using(index, 1))
    /\ index' = SubsumeIndex_default
    /\ index_phase' = "drained"
    /\ UNCHANGED <<batch, order, run, done, setVars, treeVars, incVars, callVars, matchVars, equal_keys>>

\* SubsumeIndex::default(), for the second run over the batch.
NewIndex ==
    /\ index_phase = "drained"
    /\ run = 1
    /\ order' \in Orders(Len(batch))
    /\ run' = 2
    /\ done' = 0
    /\ index' = SubsumeIndex_default
    /\ index_phase' = "insert"
    /\ UNCHANGED <<batch, drained, setVars, treeVars, incVars, callVars, matchVars, equal_keys>>

NextIndex ==
    \/ Insert
    \/ SubsumeAll
    \/ DrainUsing
    \/ NewIndex

SpecIndex == InitIndex /\ [][NextIndex]_vars

(***************************************************************************)
(* incremental_minimal_elements.  The queue operations are the atomic      *)
(* steps of the closures.  node.combine_with_subsuming(pair) is one step   *)
(* with the pop or the iteration that yields the pair: during a scope the  *)
(* tree is fixed but for the payloads, which the call changes under the    *)
(* leaf's lock by a commutative addition and never reads.  A failed push   *)
(* to the output queue is one step with the push to the spill queue that   *)
(* follows: a full output queue stays full until the scope ends.           *)
(***************************************************************************)
Workers == 1 .. num_threads

\* The vectors a generator may return: up to MaxGenerated pairs of the pool.
GeneratorOutputs(w) ==
    UNION {[1 .. n -> {AbstractedPair_new(output_set, 1) : output_set \in Pool[w]}] :
           n \in 0 .. MaxGenerated}

RECURSIVE PairsOf(_, _)
PairsOf(given, k) == IF k > Len(given) THEN 0 ELSE Len(given[k]) + PairsOf(given, k + 1)

InitInc ==
    /\ \E w \in 2 .. MaxChannels : \E n \in 1 .. MaxInputs :
          inputs \in {given \in [1 .. n -> GeneratorOutputs(w)] :
                         PairsOf(given, 1) <= MaxPairs}
    /\ num_threads \in 1 .. MaxThreads
    /\ input_queue = inputs
    /\ spill_queue = <<>>
    /\ output_queue = <<>>
    /\ chunk_size = ChunkSize
    /\ node = <<>>
    /\ main = "while"
    /\ worker = [t \in Workers |-> "joined"]
    /\ held = [t \in Workers |-> <<>>]
    /\ generating = [t \in Workers |-> <<>>]
    /\ spilled = 0
    /\ popped = 0
    /\ returned = <<>>
    /\ IdleCall
    /\ IdleMatch
    /\ equal_keys \in {"kept", "reversed"}
    /\ IdleSet
    /\ IdleTree
    /\ IdleIndex

\* if let Some(node) = &node { node.combine_with_subsuming(pair) } else { Err(pair) }
test_against_node(node_opt, pair) ==
    IF node_opt = <<>> THEN [ok |-> FALSE, pair |-> pair]
    ELSE combine_with_subsuming(node_opt[1], pair)

\* The head of the while loop: a new output queue and a scope with one
\* closure for each thread of the pool.
Scope ==
    /\ main = "while"
    /\ input_queue # <<>> \/ spill_queue # <<>>
    /\ output_queue' = <<>>
    /\ worker' = [t \in Workers |-> "spill"]
    /\ main' = "scope"
    /\ popped' = 0
    /\ UNCHANGED <<inputs, input_queue, spill_queue, chunk_size, node, num_threads,
                   held, generating, spilled, returned, setVars, treeVars, indexVars, callVars, matchVars, equal_keys>>

\* while let Ok(pair) = spill_queue.pop() { let res = ...
SpillPop(t) ==
    /\ main = "scope"
    /\ worker[t] = "spill"
    /\ IF spill_queue = <<>>
          THEN /\ worker' = [worker EXCEPT ![t] = "is_full"]
               /\ UNCHANGED <<spill_queue, node, held, popped>>
          ELSE LET Tested(r) ==
                       /\ spill_queue' = Tail(spill_queue)
                       /\ popped' = popped + 1
                       /\ IF r.ok
                             THEN /\ node' = <<r.node>>
                                  /\ UNCHANGED <<worker, held>>
                             ELSE /\ held' = [held EXCEPT ![t] = <<r.pair>>]
                                  /\ worker' = [worker EXCEPT ![t] = "spill_push"]
                                  /\ UNCHANGED node
               IN Tested(test_against_node(node, Head(spill_queue)))
    /\ UNCHANGED <<inputs, input_queue, output_queue, chunk_size, num_threads, main,
                   generating, spilled, returned, setVars, treeVars, indexVars, callVars, matchVars, equal_keys>>

\* if let Err(pair) = output_queue.push(pair) { spill_queue.push(pair.0); break; }
SpillPush(t) ==
    /\ main = "scope"
    /\ worker[t] = "spill_push"
    /\ IF Len(output_queue) < chunk_size
          THEN /\ output_queue' = Append(output_queue, held[t][1])
               /\ worker' = [worker EXCEPT ![t] = "spill"]
               /\ UNCHANGED <<spill_queue, spilled>>
          ELSE /\ spill_queue' = Append(spill_queue, held[t][1])
               /\ spilled' = spilled + 1
               /\ worker' = [worker EXCEPT ![t] = "is_full"]
               /\ UNCHANGED output_queue
    /\ held' = [held EXCEPT ![t] = <<>>]
    /\ UNCHANGED <<inputs, input_queue, chunk_size, node, num_threads, main,
                   generating, returned, popped, setVars, treeVars, indexVars, callVars, matchVars, equal_keys>>

\* The closure with a second loop that never runs: the output queue is
\* taken to be full.
IsFull_always(t) ==
    /\ main = "scope"
    /\ worker[t] = "is_full"
    /\ worker' = [worker EXCEPT ![t] = "joined"]
    /\ UNCHANGED <<inputs, input_queue, spill_queue, output_queue, chunk_size, node,
                   num_threads, main, held, generating, spilled, returned,
                   popped, setVars, treeVars, indexVars, callVars, matchVars, equal_keys>>

\* while !output_queue.is_full() {
IsFull(t) ==
    /\ main = "scope"
    /\ worker[t] = "is_full"
    /\ worker' = [worker EXCEPT ![t] = IF Len(output_queue) >= chunk_size
                                          THEN "joined" ELSE "input"]
    /\ UNCHANGED <<inputs, input_queue, spill_queue, output_queue, chunk_size, node,
                   num_threads, main, held, generating, spilled, returned,
                   popped, setVars, treeVars, indexVars, callVars, matchVars, equal_keys>>

\* if let Ok(item) = input_queue.pop() { for pair in generator(item) ... } else { break; }
InputPop(t) ==
    /\ main = "scope"
    /\ worker[t] = "input"
    /\ IF input_queue = <<>>
          THEN /\ worker' = [worker EXCEPT ![t] = "joined"]
               /\ UNCHANGED <<input_queue, generating, popped>>
          ELSE /\ input_queue' = Tail(input_queue)
               /\ popped' = popped + 1
               /\ generating' = [generating EXCEPT ![t] = Head(input_queue)]
               /\ worker' = [worker EXCEPT ![t] = "for"]
    /\ UNCHANGED <<inputs, spill_queue, output_queue, chunk_size, node, num_threads,
                   main, held, spilled, returned, setVars, treeVars, indexVars, callVars, matchVars, equal_keys>>

\* for pair in generator(item) { let res = ...
ForPair(t) ==
    /\ main = "scope"
    /\ worker[t] = "for"
    /\ IF generating[t] = <<>>
          THEN /\ worker' = [worker EXCEPT ![t] = "is_full"]
               /\ UNCHANGED <<node, held, generating>>
          ELSE LET Tested(r) ==
                       /\ generating' = [generating EXCEPT ![t] = Tail(@)]
                       /\ IF r.ok
                             THEN /\ node' = <<r.node>>
                                  /\ UNCHANGED <<worker, held>>
                             ELSE /\ held' = [held EXCEPT ![t] = <<r.pair>>]
                                  /\ worker' = [worker EXCEPT ![t] = "for_push"]
                                  /\ UNCHANGED node
               IN Tested(test_against_node(node, Head(generating[t])))
    /\ UNCHANGED <<inputs, input_queue, spill_queue, output_queue, chunk_size,
                   num_threads, main, spilled, returned, popped, setVars, treeVars, indexVars, callVars, matchVars, equal_keys>>

\* The closure dropping a pair that does not fit the output queue.
ForPush_drops(t) ==
    /\ main = "scope"
    /\ worker[t] = "for_push"
    /\ IF Len(output_queue) < chunk_size
          THEN output_queue' = Append(output_queue, held[t][1])
          ELSE UNCHANGED output_queue
    /\ worker' = [worker EXCEPT ![t] = "for"]
    /\ held' = [held EXCEPT ![t] = <<>>]
    /\ UNCHANGED <<inputs, input_queue, spill_queue, spilled, chunk_size, node,
                   num_threads, main, generating, returned, popped,
                   setVars, treeVars, indexVars, callVars, matchVars, equal_keys>>

\* if let Err(pair) = output_queue.push(pair) { spill_queue.push(pair.0); }
ForPush(t) ==
    /\ main = "scope"
    /\ worker[t] = "for_push"
    /\ IF Len(output_queue) < chunk_size
          THEN /\ output_queue' = Append(output_queue, held[t][1])
               /\ UNCHANGED <<spill_queue, spilled>>
          ELSE /\ spill_queue' = Append(spill_queue, held[t][1])
               /\ spilled' = spilled + 1
               /\ UNCHANGED output_queue
    /\ worker' = [worker EXCEPT ![t] = "for"]
    /\ held' = [held EXCEPT ![t] = <<>>]
    /\ UNCHANGED <<inputs, input_queue, chunk_size, node, num_threads, main,
                   generating, returned, popped, setVars, treeVars, indexVars, callVars, matchVars, equal_keys>>

\* incremental_minimal_elements merging the outputs without testing the
\* pairs of node against them.
merge_outputs_untested(node_opt, outputs, threads) ==
    LET Extended(node_0_pairs, node_1) ==
            <<Node_new(node_0_pairs \o minimal_elements(node_1, threads))>>
    IN Extended(IF node_opt # <<>> THEN Node_par_iter(node_opt[1], threads) ELSE <<>>,
                Node_new(outputs))

\* let node_1 = Node::new(outputs); if let Some(node_0) = node { ... } else { ... }
merge_outputs(node_opt, outputs, threads) ==
    LET \* tested: node_1 and the pairs of node_0 it sent back (none when
        \* there is no node_0);
        \* node_0_pairs.extend(node_1.minimal_elements()); Node::new(node_0_pairs)
        Tested(tested) ==
            <<Node_new(tested.rejected \o minimal_elements(tested.node, threads))>>
        Built(node_1) ==
            Tested(IF node_opt # <<>>
                       THEN collect_err(node_1, Node_par_iter(node_opt[1], threads))
                       ELSE [node |-> node_1, rejected |-> <<>>])
    IN Built(Node_new(outputs))

\* The end of the scope and the rest of the loop body: the output queue is
\* emptied into outputs and, unless that is empty, merged into node.
Join ==
    /\ main = "scope"
    /\ \A t \in Workers : worker[t] = "joined"
    /\ IF output_queue = <<>>
          THEN UNCHANGED <<node, chunk_size>>
          ELSE /\ node' = merge_outputs(node, output_queue, num_threads)
               /\ chunk_size' = chunk_size * 2
    /\ output_queue' = <<>>
    /\ main' = "while"
    /\ UNCHANGED <<inputs, input_queue, spill_queue, num_threads, worker, held,
                   generating, spilled, returned, popped, setVars, treeVars, indexVars, callVars, matchVars, equal_keys>>

\* node.into_par_iter().flatten().collect::<Vec<_>>()
Return ==
    /\ main = "while"
    /\ input_queue = <<>>
    /\ spill_queue = <<>>
    /\ returned' = IF node = <<>> THEN <<>> ELSE Node_par_iter(node[1], num_threads)
    /\ node' = <<>>
    /\ main' = "returned"
    /\ UNCHANGED <<inputs, input_queue, spill_queue, output_queue, chunk_size,
                   num_threads, worker, held, generating, spilled,
                   popped, setVars, treeVars, indexVars, callVars, matchVars, equal_keys>>

NextInc ==
    \/ Scope
    \/ \E t \in Workers : SpillPop(t)
    \/ \E t \in Workers : SpillPush(t)
    \/ \E t \in Workers : IsFull(t)
    \/ \E t \in Workers : InputPop(t)
    \/ \E t \in Workers : ForPair(t)
    \/ \E t \in Workers : ForPush(t)
    \/ Join
    \/ Return

SpecInc == InitInc /\ [][NextInc]_vars

(***************************************************************************)
(* Properties of the output-set machine.                                   *)
(***************************************************************************)
Range(seq) == {seq[k] : k \in 1 .. Len(seq)}

StrictlyIncreasing(seq) == \A k \in 1 .. (Len(seq) - 1) : seq[k] < seq[k + 1]

\* The image of a set under the comparator (i, j), value by value.
BruteForceImage(self, i, j) ==
    {IF Bit(v, j) = 1 /\ Bit(v, i) = 0 THEN (v - 2 ^ j) + 2 ^ i ELSE v :
        v \in Range(self.values)}

\* C7: apply_comparator(i, j) equals the brute-force image, sorted ascending
\* with duplicates removed: the values of the result are strictly increasing
\* and are exactly the rewritten values of the set before.
C7_ApplyComparatorIsBruteForce ==
    op.name = "apply_comparator" =>
        /\ StrictlyIncreasing(set.values)
        /\ Range(set.values) = BruteForceImage(prev, op.a, op.b)

\* A comparator that flipped a value onto a value that was kept.
C7_Witness ==
    /\ op.name = "apply_comparator"
    /\ net = -1
    /\ Len(set.values) < Len(prev.values)
    /\ \E v \in Range(prev.values) :
          /\ Bit(v, op.b) = 1 /\ Bit(v, op.a) = 0
          /\ ((v - 2 ^ op.b) + 2 ^ op.a) \in Range(prev.values)

\* C8: every reachable output set keeps the data-model invariants: strictly
\* increasing values below 2^w, between 2 and 2^w of them, the smallest 0 and
\* the largest 2^w - 1; apply_comparator never grows the set.
C8_DataModelInvariants ==
    LET w == set.channels
        n == Len(set.values)
    IN /\ StrictlyIncreasing(set.values)
       /\ \A k \in 1 .. n : set.values[k] < 2 ^ w
       /\ n >= 2
       /\ n <= 2 ^ w
       /\ set.values[1] = 0
       /\ set.values[n] = (2 ^ w) - 1
       /\ (op.name = "apply_comparator" => n <= Len(prev.values))

\* A permutation that changed a set already reduced by comparators.
C8_Witness ==
    /\ op.name = "permute_channels"
    /\ set # prev
    /\ Len(set.values) < 2 ^ set.channels

\* C9: a set reached by comparators (i, j) with i < j is_sorted exactly when
\* it consists of the w + 1 values 2^k - 1; SORT_11 applied in order is not
\* sorted before any of its steps and ends sorted with exactly 12 values.
C9_IsSorted ==
    /\ only_lt => (is_sorted(set) <=> set.values = PrefixesOfOnes(set.channels))
    /\ (net >= 0 /\ net < Len(SORT_11)) => ~is_sorted(set)
    /\ net = Len(SORT_11) => (is_sorted(set) /\ Len(set.values) = 12)

\* The end of test::sort_11_sorts.
C9_Witness ==
    /\ net = Len(SORT_11)
    /\ only_lt
    /\ is_sorted(set)
    /\ ~is_sorted(prev)

InversePerm(perm) ==
    [to \in DOMAIN perm |-> CHOOSE from \in DOMAIN perm : perm[from] = to]

\* C10: order_channels_by_weight returns a permutation perm; afterwards the
\* weights do not increase with the channel index, new channel k has the
\* weight old channel perm[k] had, equal weights keep their old order, a
\* second call returns the identity and changes nothing, and permuting by
\* the inverse of perm restores the set.
C10_OrderChannelsByWeight ==
    op.name = "order_channels_by_weight" =>
        LET w == set.channels
            perm == op.perm
            before == channel_weights(prev)
            after == channel_weights(set)
            again == order_channels_by_weight(set)
        IN /\ perm \in Perms(w)
           /\ \A k \in Channels(w) : after[k] = before[perm[k]]
           /\ \A k, l \in Channels(w) :
                 k < l => (after[k] > after[l] \/ (after[k] = after[l] /\ perm[k] < perm[l]))
           /\ again.perm = IdPerm(w)
           /\ again.set = set
           /\ permute_channels(set, InversePerm(perm)) = prev

\* A call that moved channels, with two channels of equal weight.
C10_Witness ==
    /\ op.name = "order_channels_by_weight"
    /\ op.perm # IdPerm(set.channels)
    /\ set # prev
    /\ \E k, l \in Channels(set.channels) :
          k # l /\ channel_weights(set)[k] = channel_weights(set)[l]

(***************************************************************************)
(* Properties of the tree machine.                                         *)
(***************************************************************************)
Values(output_set) == Range(output_set.values)

\* The numbers of a set in ascending order.
RECURSIVE Ascending(_)
Ascending(numbers) ==
    IF numbers = {} THEN <<>>
    ELSE LET least == CHOOSE n \in numbers : \A m \in numbers : n <= m
         IN <<least>> \o Ascending(numbers \ {least})

\* The value whose bit k is bit perm[k] of value, for k = 0 .. top.
RECURSIVE PermutedValue(_, _, _)
PermutedValue(value, perm, top) ==
    IF top < 0 THEN 0
    ELSE (Bit(value, perm[top]) * (2 ^ top)) + PermutedValue(value, perm, top - 1)

\* The values of output_set after permute_channels(perm), as a set.
PermutedValues(output_set, perm) ==
    {PermutedValue(v, perm, output_set.channels - 1) : v \in Values(output_set)}

AllPerms == Eager([w \in 1 .. Max2(MaxChannels, MaxBuildIndexChannels) |-> Perms(w)])

\* The value sets output_set has under the permutations of its channels.
Images(output_set) ==
    {PermutedValues(output_set, perm) : perm \in AllPerms[output_set.channels]}

\* Every value of p is a value of q after permute_channels(perm), for some
\* permutation perm of the channels.
SubsumesPermuted(p, q) == \E image \in Images(q) : Values(p) \subseteq image

\* C1: combine_with_subsuming returns Ok exactly when some leaf of the tree
\* has all its values among those of the query permuted by some permutation
\* of the channels; then combine ran once: one leaf's payload is combined
\* with the query's payload and nothing else in the tree changed, and that
\* leaf has all its values among those of the query under the permutation
\* handed to combine.
C1_CombineWithSubsuming ==
    (phase = "tree" /\ res # <<>>) =>
        LET query == queries[Len(queries)]
            r == res[1]
            leaves == Node_drain(tree_before[1])
            images == Images(query.output_set)
        IN /\ r.ok <=> \E k \in 1 .. Len(leaves) : \E image \in images :
                          Values(leaves[k].output_set) \subseteq image
           /\ r.ok =>
                 /\ r.perm \in AllPerms[query.output_set.channels]
                 /\ r.with.item = query.item
                 /\ r.with.output_set.values
                      = Ascending(PermutedValues(query.output_set, r.perm))
                 /\ \E k \in 1 .. Len(leaves) :
                       /\ Values(leaves[k].output_set)
                            \subseteq PermutedValues(query.output_set, r.perm)
                       /\ Node_drain(tree[1])
                            = [leaves EXCEPT ![k].item =
                                  combine(leaves[k].item, r.perm, query.item)]

\* A query found below the root, under a permutation that is not the
\* identity, in a tree that does not hold the query's own set.
C1_Witness ==
    /\ phase = "tree"
    /\ res # <<>>
    /\ res[1].ok
    /\ res[1].perm # IdPerm(queries[1].output_set.channels)
    /\ Len(res[1].path) >= 1
    /\ \A k \in 1 .. Len(items) : items[k].output_set # queries[Len(queries)].output_set

\* p.output_set subsumes no permutation of q.output_set, for any two of the
\* pairs.
Antichain(pairs) ==
    \A k, l \in 1 .. Len(pairs) :
        k # l => ~SubsumesPermuted(pairs[k].output_set, pairs[l].output_set)

\* Every pair of given is subsumed under some permutation by one of pairs.
\* (A pair p subsumes a permutation of q exactly when a permutation of p has
\* all its values among those of q: the permutations are a group.)
Covers(pairs, given) ==
    LET images == UNION {Images(pairs[k].output_set) : k \in 1 .. Len(pairs)}
    IN \A q \in {given[k].output_set : k \in 1 .. Len(given)} :
          \E image \in images : image \subseteq Values(q)

C5_ErrReturnsQuery ==
    (phase = "tree" /\ res # <<>>) =>
        /\ \A k \in 1 .. Len(res[1].errs) : res[1].errs[k].returned = res[1].errs[k].given
        /\ ~res[1].ok =>
              /\ res[1].pair = queries[Len(queries)]
              /\ tree = tree_before

\* A call of combine_permuted that returned Err after its first loop had
\* swapped channels of the pair it was given.
C5_Witness ==
    /\ phase = "tree"
    /\ res # <<>>
    /\ \E k \in 1 .. Len(res[1].errs) :
          /\ res[1].errs[k].rotated.output_set # res[1].errs[k].given.output_set
          /\ res[1].errs[k].rotated.abstraction # res[1].errs[k].given.abstraction

(***************************************************************************)
(* Properties of the index machine.                                        *)
(***************************************************************************)
\* C3: after the inserts and subsume_all, no stored pair subsumes a
\* permutation of another stored pair.
C3_SubsumeAllAntichain ==
    index_phase = "subsumed" => Antichain(drain_using(index, 1))

\* An index that holds several pairs after pairs were subsumed, some at
\* insert and some when trees were merged.
C3_Witness ==
    /\ index_phase = "subsumed"
    /\ Len(index.trees) = 1
    /\ Len(drain_using(index, 1)) >= 2
    /\ Len(drain_using(index, 1)) < Len(batch)
    /\ \E k, l \in 1 .. Len(batch) :
          /\ k < l
          /\ batch[order[k]] # batch[order[l]]
          /\ SubsumesPermuted(batch[order[l]], batch[order[k]])

Payloads(pairs) == [k \in 1 .. Len(pairs) |-> pairs[k].item]

\* The number of times each payload value occurs.
PayloadCounts(pairs) ==
    [v \in Range(Payloads(pairs)) |->
        Cardinality({k \in 1 .. Len(pairs) : pairs[k].item = v})]

RECURSIVE PayloadSum(_, _)
PayloadSum(pairs, k) ==
    IF k > Len(pairs) THEN 0 ELSE pairs[k].item + PayloadSum(pairs, k + 1)

RECURSIVE GeneratorOutput(_, _)
GeneratorOutput(given, k) ==
    IF k > Len(given) THEN <<>> ELSE given[k] \o GeneratorOutput(given, k + 1)

\* C2: whatever the inputs, the generator, the number of threads and the
\* interleaving of the closures, the vector returned is an antichain of
\* pairs the generator made, and every pair the generator made is subsumed
\* under some permutation by a returned pair.
C2_IncrementalMinimalElements ==
    main = "returned" =>
        LET outputs == GeneratorOutput(inputs, 1)
        IN /\ Antichain(returned)
           /\ Covers(returned, outputs)
           /\ \A k \in 1 .. Len(returned) :
                 \E l \in 1 .. Len(outputs) :
                    outputs[l].output_set = returned[k].output_set

\* A run of two closures in which pairs went through the spill queue, the
\* tree was merged more than once, and pairs were subsumed.
C2_Witness ==
    /\ main = "returned"
    /\ num_threads = 2
    /\ spilled >= 1
    /\ chunk_size >= ChunkSize * 4
    /\ Len(returned) >= 2
    /\ Len(returned) < Len(GeneratorOutput(inputs, 1))

(***************************************************************************)
(* Properties of the abstraction.                                          *)
(***************************************************************************)
\* The sum of the entries f[from], f[from + 1], ..., f[to].
RECURSIVE SumOfEntries(_, _, _)
SumOfEntries(f, from, to) ==
    IF from > to THEN 0 ELSE f[from] + SumOfEntries(f, from + 1, to)

AbstractionSum(output_set) ==
    LET Summed(values) == SumOfEntries(values, 0, Cardinality(DOMAIN values) - 1)
    IN Summed(abstraction(output_set).values)

\* C11 as stated: the entries of the abstraction of an output set of width w
\* sum to 2 * w * |values|.
C11_AbstractionSumTwice ==
    AbstractionSum(set) = (2 * set.channels) * Len(set.values)

\* C11 as amended: the abstraction of an output set of width w has 2 * w * w
\* entries and they sum to w * |values| (every value adds one to one entry
\* for each channel).
C11_AbstractionSum ==
    LET Entries(values) ==
            /\ DOMAIN values = 0 .. (((set.channels * set.channels) * 2) - 1)
            /\ SumOfEntries(values, 0, Cardinality(DOMAIN values) - 1)
                 = set.channels * Len(set.values)
    IN Entries(abstraction(set).values)

\* An output set of full width that comparators have made smaller than
\* all_values.
C11_Witness ==
    /\ net = -1
    /\ set.channels = MaxChannels
    /\ op.name = "apply_comparator"
    /\ Len(set.values) < 2 ^ set.channels
    /\ Len(set.values) > set.channels + 1

(***************************************************************************)
(* Properties of the trees Node::new builds.                               *)
(***************************************************************************)
\* Every entry of self is at most the entry of other.
AbstractionLe(self, other) ==
    \A i \in DOMAIN self.values : self.values[i] <= other.values[i]

\* The abstraction of every inner node at or below self is, entry by entry,
\* at most the abstraction of every leaf below it.
RECURSIVE LowerBounds(_)
LowerBounds(self) ==
    \/ self.leaf
    \/ /\ \A leaf \in Range(Node_drain(self)) :
             AbstractionLe(self.abstraction, leaf.abstraction)
       /\ LowerBounds(self.children[1])
       /\ LowerBounds(self.children[2])

\* Whatever channels of a leaf below self pass channel_le against the query
\* pass it at self too, for self and every inner node below it.
RECURSIVE FilterIsWeaker(_, _)
FilterIsWeaker(self, query) ==
    \/ self.leaf
    \/ /\ \A leaf \in Range(Node_drain(self)) :
             \A a, b \in Channels(query.output_set.channels) :
                channel_le(leaf.abstraction, a, query.abstraction, b)
                   => channel_le(self.abstraction, a, query.abstraction, b)
       /\ FilterIsWeaker(self.children[1], query)
       /\ FilterIsWeaker(self.children[2], query)

\* any: some leaf at or below self has all its values among those of an
\* image of the query; good: the filter of no node at or below self that
\* has such a leaf below it rejects the query.
RECURSIVE PassesAbove(_, _, _)
PassesAbove(self, query, images) ==
    LET Passes(any) ==
            any => ~filtered_matching(self, query,
                                      Matching_new(query.output_set.channels)).ret
        Leaf_(any) == [any |-> any, good |-> Passes(any)]
        Both(child_0, child_1) ==
            [any |-> child_0.any \/ child_1.any,
             good |-> child_0.good /\ child_1.good /\ Passes(child_0.any \/ child_1.any)]
    IN IF self.leaf
           THEN Leaf_(\E image \in images : Values(self.pair.output_set) \subseteq image)
           ELSE Both(PassesAbove(self.children[1], query, images),
                     PassesAbove(self.children[2], query, images))

\* C12: in every tree of Node::new the abstraction of an inner node is entry
\* by entry at most that of every leaf below it; the channels of a leaf
\* that pass channel_le against a query pass it at every ancestor; and the
\* filter of no ancestor of a leaf that subsumes a permutation of the query
\* rejects the query.
C12_InnerAbstractionIsLowerBound ==
    /\ (phase = "tree" /\ tree # <<>>) => LowerBounds(tree[1])
    /\ (phase = "tree" /\ res # <<>>) =>
          /\ build_index = 0 => FilterIsWeaker(tree_before[1], queries[Len(queries)])
          /\ PassesAbove(tree_before[1], queries[Len(queries)],
                         Images(queries[Len(queries)].output_set)).good

\* A query found at a leaf two levels below a root whose abstraction is not
\* that of any of its leaves.
C12_Witness ==
    /\ phase = "tree"
    /\ res # <<>>
    /\ res[1].ok
    /\ Len(res[1].path) >= 2
    /\ \A leaf \in Range(Node_drain(tree[1])) :
          tree[1].abstraction # leaf.abstraction

\* The size of every inner node at or below self is the sum of the sizes of
\* its two children, and the number of pairs it yields when drained.
RECURSIVE LenIsSumOfChildren(_)
LenIsSumOfChildren(self) ==
    \/ self.leaf
    \/ /\ Node_len(self) = Node_len(self.children[1]) + Node_len(self.children[2])
       /\ Node_len(self) = Len(Node_drain(self))
       /\ LenIsSumOfChildren(self.children[1])
       /\ LenIsSumOfChildren(self.children[2])

\* C13: in every tree built by Node::new, the size of each inner node is the
\* sum of the sizes of its two children and the number of pairs it yields
\* when drained.
C13_LenIsSumOfChildren ==
    (phase = "tree" /\ tree # <<>>) => LenIsSumOfChildren(tree[1])

(***************************************************************************)
(* Contract checks: one call of an operation with arguments that may break *)
(* its contract. outcome records whether the call panicked (an assert!,    *)
(* assert_eq! or assert_ne! of the operation failed) or returned a value.  *)
(***************************************************************************)
MaxCallChannels == 3

Panicked == [panicked |-> TRUE, value |-> <<>>]

Returned(value) == [panicked |-> FALSE, value |-> value]

\* The output sets a call is made on: of every width up to MaxCallChannels.
CallSets ==
    UNION {Generated(w, 1) : w \in 1 .. MaxCallChannels}

CallAbstractions == {abstraction(s) : s \in CallSets}

\* assert_ne!(a, b); assert!(a < self.channels && b < self.channels);
apply_comparator_asserts(self, a, b) ==
    /\ a # b
    /\ a < self.channels /\ b < self.channels

\* assert!(a < self.channels && b < self.channels);
swap_channels_asserts(self, a, b) ==
    a < self.channels /\ b < self.channels

\* OutputSet::subsumes has no assertion: it compares the two value vectors
\* whatever the widths of the two sets.
subsumes_asserts(self, other) == TRUE

\* assert_eq!(self.channels, other.channels);
update_min_asserts(self, other) == self.channels = other.channels

\* assert_eq!(self.channels, other.channels);
update_max_asserts(self, other) == self.channels = other.channels

\* assert_eq!(self.channels, other.channels);
channel_le_asserts(self, other) == self.channels = other.channels

\* assert!(!items.is_empty());
Node_new_asserts(items_in) == items_in # <<>>

InitCall ==
    /\ IdleCall
    /\ IdleSet
    /\ IdleTree
    /\ IdleIndex
    /\ IdleInc
    /\ IdleMatch
    /\ equal_keys = "kept"

CallApplyComparator ==
    /\ \E s \in CallSets, a \in 0 .. MaxCallChannels, b \in 0 .. MaxCallChannels :
          /\ call' = [name |-> "apply_comparator", self |-> s, other |-> <<>>,
                      a |-> a, b |-> b]
          /\ outcome' = IF apply_comparator_asserts(s, a, b)
                            THEN Returned(apply_comparator(s, a, b))
                            ELSE Panicked
    /\ UNCHANGED <<setVars, treeVars, indexVars, incVars, matchVars, equal_keys>>

CallSwapChannels ==
    /\ \E s \in CallSets, a \in 0 .. MaxCallChannels, b \in 0 .. MaxCallChannels :
          /\ call' = [name |-> "swap_channels", self |-> s, other |-> <<>>,
                      a |-> a, b |-> b]
          /\ outcome' = IF swap_channels_asserts(s, a, b)
                            THEN Returned(swap_channels(s, a, b))
                            ELSE Panicked
    /\ UNCHANGED <<setVars, treeVars, indexVars, incVars, matchVars, equal_keys>>

CallSubsumes ==
    /\ \E s \in CallSets, o \in CallSets :
          /\ call' = [name |-> "subsumes", self |-> s, other |-> o,
                      a |-> 0, b |-> 0]
          /\ outcome' = IF subsumes_asserts(s, o)
                            THEN Returned(subsumes(s, o))
                            ELSE Panicked
    /\ UNCHANGED <<setVars, treeVars, indexVars, incVars, matchVars, equal_keys>>

CallUpdateMin ==
    /\ \E s \in CallAbstractions, o \in CallAbstractions :
          /\ call' = [name |-> "update_min", self |-> s, other |-> o,
                      a |-> 0, b |-> 0]
          /\ outcome' = IF update_min_asserts(s, o)
                            THEN Returned(update_min(s, o))
                            ELSE Panicked
    /\ UNCHANGED <<setVars, treeVars, indexVars, incVars, matchVars, equal_keys>>

CallUpdateMax ==
    /\ \E s \in CallAbstractions, o \in CallAbstractions :
          /\ call' = [name |-> "update_max", self |-> s, other |-> o,
                      a |-> 0, b |-> 0]
          /\ outcome' = IF update_max_asserts(s, o)
                            THEN Returned(update_max(s, o))
                            ELSE Panicked
    /\ UNCHANGED <<setVars, treeVars, indexVars, incVars, matchVars, equal_keys>>

CallChannelLe ==
    /\ \E s \in CallAbstractions, o \in CallAbstractions :
          \E a \in Channels(s.channels), b \in Channels(o.channels) :
             /\ call' = [name |-> "channel_le", self |-> s, other |-> o,
                         a |-> a, b |-> b]
             /\ outcome' = IF channel_le_asserts(s, o)
                               THEN Returned(channel_le(s, a, o, b))
                               ELSE Panicked
    /\ UNCHANGED <<setVars, treeVars, indexVars, incVars, matchVars, equal_keys>>

CallNodeNew ==
    /\ \E its \in {<<>>} \cup {<<AbstractedPair_new(s, 1)>> : s \in CallSets} :
          /\ call' = [name |-> "Node::new", self |-> its, other |-> <<>>,
                      a |-> 0, b |-> 0]
          /\ outcome' = IF Node_new_asserts(its)
                            THEN Returned(Node_new(its))
                            ELSE Panicked
    /\ UNCHANGED <<setVars, treeVars, indexVars, incVars, matchVars, equal_keys>>

NextCall ==
    \/ CallApplyComparator
    \/ CallSwapChannels
    \/ CallSubsumes
    \/ CallUpdateMin
    \/ CallUpdateMax
    \/ CallChannelLe
    \/ CallNodeNew

SpecCall == InitCall /\ [][NextCall]_vars

\* The call in progress breaks the contract of its operation: a comparator
\* with equal endpoints, a channel index that is not below the width, two
\* operands of different width, or an empty vector of items.
ContractViolation ==
    /\ call # <<>>
    /\ \/ /\ call.name = "apply_comparator"
          /\ \/ call.a = call.b
             \/ call.a >= call.self.channels
             \/ call.b >= call.self.channels
       \/ /\ call.name = "swap_channels"
          /\ \/ call.a >= call.self.channels
             \/ call.b >= call.self.channels
       \/ /\ call.name \in {"subsumes", "update_min", "update_max", "channel_le"}
          /\ call.self.channels # call.other.channels
       \/ /\ call.name = "Node::new"
          /\ call.self = <<>>

\* C14: every call that breaks the contract of its operation panics instead
\* of returning a value.
C14_ContractViolationPanics ==
    ContractViolation => outcome.panicked

(***************************************************************************)
(* Matching: a matching made by Matching::new and changed by its public    *)
(* operations.  mat_before is the matching before the last operation,      *)
(* mat_op the operation with its arguments and the value it returned.      *)
(***************************************************************************)
MaxMatchChannels == 3

\* The number of pairs a filter closure of the model rejects, at most.
MaxRejected == 1

\* The closures given to filter, as tables of their values.
Preds(w) ==
    {[p \in Channels(w) \X Channels(w) |-> p \notin rejected] :
        rejected \in {r \in SUBSET (Channels(w) \X Channels(w)) :
                         Cardinality(r) <= MaxRejected}}

MatchOp(name, a, b, pred, ret) ==
    [name |-> name, a |-> a, b |-> b, pred |-> pred, ret |-> ret]

InitMatch ==
    /\ \E w \in 1 .. MaxMatchChannels : mat = Matching_new(w)
    /\ mat_before = mat
    /\ mat_op = MatchOp("new", 0, 0, <<>>, FALSE)
    /\ IdleSet
    /\ IdleTree
    /\ IdleIndex
    /\ IdleInc
    /\ IdleCall
    /\ equal_keys = "kept"

MatchRemove ==
    /\ \E a \in DOMAIN mat.matches_a, b \in DOMAIN mat.matches_b :
          LET Done(r) ==
                  /\ mat' = r.self
                  /\ mat_op' = MatchOp("remove", a, b, <<>>, r.ret)
          IN Done(remove(mat, a, b))
    /\ mat_before' = mat
    /\ UNCHANGED <<setVars, treeVars, indexVars, incVars, callVars, equal_keys>>

MatchSelect ==
    /\ \E a \in DOMAIN mat.matches_a, b \in DOMAIN mat.matches_b :
          LET Done(r) ==
                  /\ mat' = r.self
                  /\ mat_op' = MatchOp("select", a, b, <<>>, r.ret)
          IN Done(select(mat, a, b))
    /\ mat_before' = mat
    /\ UNCHANGED <<setVars, treeVars, indexVars, incVars, callVars, equal_keys>>

MatchFilter ==
    /\ \E pred \in Preds(Cardinality(DOMAIN mat.matches_a)) :
          LET Done(r) ==
                  /\ mat' = r.self
                  /\ mat_op' = MatchOp("filter", 0, 0, pred, r.ret)
          IN Done(filter(mat, pred))
    /\ mat_before' = mat
    /\ UNCHANGED <<setVars, treeVars, indexVars, incVars, callVars, equal_keys>>

MatchSwapChannelsA ==
    /\ \E a_0 \in DOMAIN mat.matches_a, a_1 \in DOMAIN mat.matches_a :
          /\ mat' = swap_channels_a(mat, a_0, a_1)
          /\ mat_op' = MatchOp("swap_channels_a", a_0, a_1, <<>>, FALSE)
    /\ mat_before' = mat
    /\ UNCHANGED <<setVars, treeVars, indexVars, incVars, callVars, equal_keys>>

MatchSwapChannelsB ==
    /\ \E b_0 \in DOMAIN mat.matches_b, b_1 \in DOMAIN mat.matches_b :
          /\ mat' = swap_channels_b(mat, b_0, b_1)
          /\ mat_op' = MatchOp("swap_channels_b", b_0, b_1, <<>>, FALSE)
    /\ mat_before' = mat
    /\ UNCHANGED <<setVars, treeVars, indexVars, incVars, callVars, equal_keys>>

\* One turn of the loop of a combine_permuted that branches (not every
\* channel of side A is uniquely matched): next_matching is a clone of the
\* matching, and unless select returns true the recursion goes on with it.
MatchBranch ==
    /\ ~mat.incomplete
    /\ \E a \in DOMAIN mat.matches_a : ~is_power_of_two(mat.matches_a[a])
    /\ \E a \in DOMAIN mat.matches_a : Cardinality(mat.matches_a[a]) > 1
    /\ \E k \in DOMAIN mat.matches_a :
          LET Done(args, next_matching) ==
                  /\ mat' = IF next_matching.ret THEN mat ELSE next_matching.self
                  /\ mat_op' = MatchOp("branch", args[1], args[2], <<>>,
                                       next_matching.ret)
              Selected(args) == Done(args, select(mat, args[1], args[2]))
          IN Selected(branch_select(mat, Cardinality(DOMAIN mat.matches_a), k))
    /\ mat_before' = mat
    /\ UNCHANGED <<setVars, treeVars, indexVars, incVars, callVars, equal_keys>>

NextMatch ==
    \/ MatchRemove
    \/ MatchSelect
    \/ MatchFilter
    \/ MatchSwapChannelsA
    \/ MatchSwapChannelsB
    \/ MatchBranch

SpecMatch == InitMatch /\ [][NextMatch]_vars

\* Bit j of row i of side A is set iff bit i of row j of side B is set.
Mirrors(self) ==
    \A i \in DOMAIN self.matches_a, j \in DOMAIN self.matches_b :
        (j \in self.matches_a[i]) <=> (i \in self.matches_b[j])

\* incomplete, once set, stays set, and remove, select and filter then
\* return true and change neither mask array.
Sticky ==
    mat_before.incomplete =>
        /\ mat.incomplete
        /\ mat_op.name \in {"remove", "select", "filter"} =>
              /\ mat_op.ret
              /\ mat.matches_a = mat_before.matches_a
              /\ mat.matches_b = mat_before.matches_b

\* C15: after any sequence of remove, select, filter, swap_channels_a and
\* swap_channels_b on Matching::new(w) the two mask arrays mirror each
\* other, incomplete once set is never cleared, and every later remove,
\* select or filter returns true and leaves both mask arrays unchanged.
C15_MirrorAndSticky ==
    mat # <<>> => (Mirrors(mat) /\ Sticky)

\* A consistent matching: not incomplete, the two mask arrays mirroring each
\* other.
Consistent(self) == ~self.incomplete /\ Mirrors(self)

\* Every pair (a, sigma(a)) is a pair of the matching.
Contained(sigma, self) ==
    \A a \in DOMAIN self.matches_a : sigma[a] \in self.matches_a[a]

\* The permutations all of whose pairs are pairs of the matching.
ContainedPerms(self) ==
    {sigma \in Perms(Cardinality(DOMAIN self.matches_a)) : Contained(sigma, self)}

\* The last operation keeps sigma: remove(a, b) with sigma(a) # b,
\* select(a, b) with sigma(a) = b, filter(pred) with pred true on every pair
\* of sigma.
Keeps(sigma) ==
    \/ mat_op.name = "remove" /\ sigma[mat_op.a] # mat_op.b
    \/ mat_op.name = "select" /\ sigma[mat_op.a] = mat_op.b
    \/ mat_op.name = "filter"
         /\ \A a \in DOMAIN sigma : mat_op.pred[a, sigma[a]]

\* An operation that keeps a permutation contained in a consistent matching
\* returns false and leaves the permutation contained.
Sound ==
    Consistent(mat_before) =>
        \A sigma \in ContainedPerms(mat_before) :
            Keeps(sigma) => (~mat_op.ret /\ Contained(sigma, mat))

\* remove, select and filter add no pair to either mask array.
NoPairAdded ==
    mat_op.name \in {"remove", "select", "filter"} =>
        /\ \A a \in DOMAIN mat.matches_a : mat.matches_a[a] \subseteq mat_before.matches_a[a]
        /\ \A b \in DOMAIN mat.matches_b : mat.matches_b[b] \subseteq mat_before.matches_b[b]

\* The last operation set incomplete on a consistent matching.
SetIncomplete ==
    /\ mat_op.name \in {"remove", "select", "filter"}
    /\ Consistent(mat_before)
    /\ mat.incomplete

\* C16 as stated: propagation is sound, incomplete is set only when no
\* permutation is contained in the remaining pairs, and no operation adds a
\* pair.
C16_SoundAndNoneRemaining ==
    mat # <<>> =>
        /\ Sound
        /\ SetIncomplete => ContainedPerms(mat) = {}
        /\ NoPairAdded

\* C16: propagation is sound; incomplete is set only when no permutation
\* contained in the pairs before the operation is kept by it, and, unless the
\* operation is a select of a pair that is not in the matching, when no
\* permutation is contained in the remaining pairs; remove, select and
\* filter add no pair.
C16_SoundPropagation ==
    mat # <<>> =>
        /\ Sound
        /\ SetIncomplete =>
              /\ \A sigma \in ContainedPerms(mat_before) : ~Keeps(sigma)
              /\ \/ /\ mat_op.name = "select"
                    /\ ~contains(mat_before, mat_op.a, mat_op.b)
                    /\ mat.matches_a = mat_before.matches_a
                    /\ mat.matches_b = mat_before.matches_b
                 \/ ContainedPerms(mat) = {}
        /\ NoPairAdded

\* The number of pairs of side A.
PairCount(self) ==
    Cardinality({p \in (DOMAIN self.matches_a) \X (DOMAIN self.matches_a) :
                    p[2] \in self.matches_a[p[1]]})

\* A remove on a consistent matching that returned false, took more than its
\* own pair away (unit propagation) and left a permutation contained.
C16_Witness ==
    /\ mat # <<>>
    /\ mat_op.name = "remove"
    /\ Consistent(mat_before)
    /\ ~mat_op.ret
    /\ PairCount(mat) + 2 <= PairCount(mat_before)
    /\ ContainedPerms(mat) # {}

(***************************************************************************)
(* Termination of incremental_minimal_elements: a measure of the work left *)
(* that every step of every thread makes smaller.                          *)
(***************************************************************************)
\* The scope has ended: every closure has returned.
RoundEnd ==
    /\ main = "scope"
    /\ \A t \in Workers : worker[t] = "joined"

\* At the end of a round at least one item was popped from the input or the
\* spill queue, and if the output queue is empty so are the other two.
RoundProgress ==
    RoundEnd =>
        /\ popped >= 1
        /\ output_queue = <<>> => (input_queue = <<>> /\ spill_queue = <<>>)

\* A pair that a closure held and pushed is the last of the output queue,
\* or, the output queue being full, the last of the spill queue.
SpillKept ==
    \A t \in Workers :
        (main = "scope" /\ held[t] # <<>> /\ held'[t] = <<>>) =>
            IF Len(output_queue) < chunk_size
                THEN /\ output_queue' = Append(output_queue, held[t][1])
                     /\ spill_queue' = spill_queue
                ELSE /\ spill_queue' = Append(spill_queue, held[t][1])
                     /\ output_queue' = output_queue

\* The function has returned: nothing is left in a queue or with a closure.
Terminated ==
    /\ main = "returned"
    /\ input_queue = <<>>
    /\ spill_queue = <<>>
    /\ \A t \in Workers : held[t] = <<>> /\ generating[t] = <<>>

\* Some thread can take a step: the calling thread at the head of the loop,
\* a closure at any of its positions (one holding a pair when it is about to
\* push), or the calling thread at the end of the scope.
NotStuck ==
    \/ Terminated
    \/ main = "while"
    \/ /\ main = "scope"
       /\ \A t \in Workers :
             /\ worker[t] \in {"spill", "spill_push", "is_full", "input", "for",
                               "for_push", "joined"}
             /\ worker[t] \in {"spill_push", "for_push"} => held[t] # <<>>

RECURSIVE SumOver(_, _)
SumOver(f, indices) ==
    IF indices = {} THEN 0
    ELSE LET i == CHOOSE i \in indices : TRUE
         IN f[i] + SumOver(f, indices \ {i})

\* The items not yet settled: each input still queued and each pair it will
\* generate, the pairs being generated or held by a closure, the pairs in
\* the spill queue.
Unsettled ==
    SumOver([k \in DOMAIN input_queue |-> 1 + Len(input_queue[k])], DOMAIN input_queue)
      + SumOver([t \in Workers |-> Len(generating[t]) + Len(held[t])], Workers)
      + Len(spill_queue)

\* How far a closure is from returning: its position in the closure's code
\* and the pairs its for loop has yet to take.
PositionRank(t) ==
    CASE worker[t] = "joined" -> 0
      [] worker[t] = "input" -> 1
      [] worker[t] = "is_full" -> 2
      [] worker[t] = "for" -> 3
      [] worker[t] = "for_push" -> 4
      [] worker[t] = "spill_push" -> 5
      [] worker[t] = "spill" -> 6

Ranks == SumOver([t \in Workers |-> PositionRank(t) + (2 * Len(generating[t]))], Workers)

\* More than Ranks can be.
RankBase == 1 + (MaxThreads * (6 + (2 * (MaxPairs + MaxGenerated))))

\* The measure: three for each unsettled item; in a scope two more once the
\* round has put a pair into the output queue or settled everything; at the
\* head of the loop one more; and the ranks of the closures below that.
Variant ==
    IF main = "returned" THEN 0
    ELSE (RankBase * ((3 * Unsettled)
                       + (IF main = "while" THEN 1
                          ELSE IF output_queue # <<>> \/ Unsettled = 0 THEN 2
                          ELSE 0)))
           + Ranks

\* C17: incremental_minimal_elements terminates under every interleaving:
\* some thread can step until the function has returned and every step
\* lowers a measure that is a natural number; every round pops at least one
\* item from the input or the spill queue, a pair that does not fit the
\* output queue is kept in the spill queue, and a round that ends with an
\* empty output queue leaves both queues empty.
C17_Terminates ==
    /\ [](RoundProgress /\ NotStuck /\ Variant >= 0 /\ Ranks < RankBase)
    /\ [][SpillKept /\ Variant' < Variant]_vars

\* The function returned after a pair was spilled and two rounds had put
\* pairs into the node.
C17_Witness ==
    /\ Terminated
    /\ spilled >= 1
    /\ chunk_size >= 4 * ChunkSize

\* The sum of the sizes of the trees from the k-th on.
RECURSIVE SumOfTreeSizes(_, _)
SumOfTreeSizes(trees, k) ==
    IF k > Len(trees) THEN 0
    ELSE Node_len(trees[k]) + SumOfTreeSizes(trees, k + 1)

\* C18: after any sequence of inserts into an empty index, len is the sum of
\* the sizes of the trees (and the number of pairs the index holds), and the
\* sizes of the trees strictly decrease from the first tree to the last.
C18_LenAndTreeSizes ==
    index_phase = "insert" =>
        /\ index.len = SumOfTreeSizes(index.trees, 1)
        /\ index.len = Len(drain_using(index, 1))
        /\ \A k \in 1 .. (Len(index.trees) - 1) :
              Node_len(index.trees[k]) > Node_len(index.trees[k + 1])

\* An index of several trees, the first of them made by a merge.
C18_Witness ==
    /\ index_phase = "insert"
    /\ Len(index.trees) >= 2
    /\ Node_len(index.trees[1]) >= 2
    /\ ~index.trees[1].leaf

\* The channel of side A whose row has the fewest bits among the rows with
\* more than one bit, the smallest such channel if there are several.
MinRow(self) ==
    CHOOSE a \in DOMAIN self.matches_a :
        /\ Cardinality(self.matches_a[a]) > 1
        /\ \A c \in DOMAIN self.matches_a :
              Cardinality(self.matches_a[c]) > 1 =>
                 \/ Cardinality(self.matches_a[a]) < Cardinality(self.matches_a[c])
                 \/ /\ Cardinality(self.matches_a[a]) = Cardinality(self.matches_a[c])
                    /\ a <= c

\* C19: a combine_permuted that branches recurses on clones of the matching
\* after select(a, b), where a is the channel of side A whose row has the
\* fewest bits among the rows with more than one bit (the smallest such
\* channel) and b is a channel of side B allowed in that row.
C19_BranchesOnMinRow ==
    (mat # <<>> /\ mat_op.name = "branch" /\ ~mat_op.ret) =>
        /\ mat_op.a = MinRow(mat_before)
        /\ mat_op.b \in mat_before.matches_a[mat_op.a]
        /\ mat = select(mat_before, mat_op.a, mat_op.b).self

\* The payloads of the pairs that have been generated and not yet returned:
\* in the node, in the output queue, in the spill queue, held by a closure.
PayloadInFlight ==
    (IF node = <<>> THEN 0 ELSE PayloadSum(Node_par_iter(node[1], num_threads), 1))
      + PayloadSum(output_queue, 1)
      + PayloadSum(spill_queue, 1)
      + SumOver([t \in Workers |-> PayloadSum(held[t], 1)], Workers)

\* The pairs the generator has yet to produce: those of the inputs still
\* queued and those the for loop of a closure has yet to take.
PairsToCome ==
    SumOver([k \in DOMAIN input_queue |-> Len(input_queue[k])], DOMAIN input_queue)
      + SumOver([t \in Workers |-> Len(generating[t])], Workers)

\* C20: with every generated pair carrying the payload 1, at every point of
\* every interleaving the payloads in the node, the queues and the closures
\* sum to the number of pairs generated so far, and the payloads of the
\* returned pairs sum to the number of pairs the generator produced.
C20_PayloadsConserved ==
    /\ main \in {"while", "scope"} =>
          PayloadInFlight + PairsToCome = Len(GeneratorOutput(inputs, 1))
    /\ main = "returned" =>
          PayloadSum(returned, 1) = Len(GeneratorOutput(inputs, 1))

\* A run of two closures that returned fewer pairs than were generated, one
\* of them with the payloads of three, after a pair went through the spill
\* queue.
C20_Witness ==
    /\ main = "returned"
    /\ num_threads = 2
    /\ spilled >= 1
    /\ Len(returned) < Len(GeneratorOutput(inputs, 1))
    /\ \E k \in 1 .. Len(returned) : returned[k].item >= 3




=============================================================================
